---------------------------- MODULE Spec2Model ----------------------------
(***************************************************************************)
(* Katamari Damacy scene objects (src/src/KatamariDamacy/objects.ts):      *)
(* ObjectRenderer, its per-frame update prepareToRender, the motion        *)
(* functions (followPath and the misc motions) and the animation           *)
(* functions; and the data fetcher of the scenes (src/src/fetch.ts):       *)
(* DataFetcherRequest and DataFetcher.                                     *)
(*                                                                         *)
(* Numbers.  The program computes in IEEE doubles; the model computes in   *)
(* fixed point:                                                            *)
(*   lengths   in tenths of a world unit (speedTable[0] = 0.3 is 3),       *)
(*   angles    in units of pi/90 (two degrees): Math.PI is 90,             *)
(*   fractions (sines, matrix entries, unit vectors) in units of 1/ONE,    *)
(*   time      in frames (deltaTimeInFrames is 0, 1 or 2).                 *)
(* NaN and +-Infinity are kept as values of their own, with the IEEE rules *)
(* for the operations the program applies to them.                         *)
(***************************************************************************)
EXTENDS Integers, Sequences, FiniteSets, TLC

\* ------------------------------------------------------------------------
\* Units of the fixed-point arithmetic
\* ------------------------------------------------------------------------

\* Math.PI in angle units (one unit is pi/90 radians).
PI == 90

TAU == 2 * PI

HALF_PI == PI \div 2

\* 1.0 as a fixed-point fraction.
ONE == 10000

\* 1.0 world unit in length units.
UNIT == 10

\* Angle units per radian, times 1000 (90 / pi = 28.648).
UNITS_PER_RADIAN_E3 == 28648

\* ------------------------------------------------------------------------
\* IEEE special values
\* ------------------------------------------------------------------------

\* The value of a read past the end of a Float32Array, stored into a vec3.
NaN == 999999999

\* +Infinity; -Infinity is -Inf.
Inf == 999999998

IsNaN(x) == x = NaN

\* A local of the program, const name = value: the value is computed once
\* and Op is applied to it.
With(value, Op(_)) == CHOOSE result \in {Op(v) : v \in {value}} : TRUE

IsInf(x) == x = Inf \/ x = -Inf

IsFinite(x) == ~IsNaN(x) /\ ~IsInf(x)

Abs(x) == IF x < 0 THEN -x ELSE x

Sgn(x) == IF x > 0 THEN 1 ELSE IF x < 0 THEN -1 ELSE 0

\* Math.sign: NaN for NaN, else -1, 0 or 1.
MathSign(x) == IF IsNaN(x) THEN NaN ELSE Sgn(x)

\* a !== b on numbers: NaN differs from everything, itself included.
NotSame(a, b) == IsNaN(a) \/ IsNaN(b) \/ a # b

\* a < b, a <= b, a > b on numbers: false when either is NaN.
Less(a, b) == ~IsNaN(a) /\ ~IsNaN(b) /\ a < b

LessEq(a, b) == ~IsNaN(a) /\ ~IsNaN(b) /\ a <= b

XNeg(a) == IF IsNaN(a) THEN NaN ELSE -a

XAdd(a, b) ==
    IF IsNaN(a) \/ IsNaN(b) THEN NaN
    ELSE IF IsInf(a) /\ IsInf(b) THEN (IF a = b THEN a ELSE NaN)
    ELSE IF IsInf(a) THEN a
    ELSE IF IsInf(b) THEN b
    ELSE a + b

XSub(a, b) == XAdd(a, XNeg(b))

\* a * b, both plain integers or special values.
XMul(a, b) ==
    IF IsNaN(a) \/ IsNaN(b) THEN NaN
    ELSE IF IsInf(a) \/ IsInf(b)
         THEN (IF a = 0 \/ b = 0 THEN NaN ELSE Sgn(a) * Sgn(b) * Inf)
    ELSE a * b

\* The quotient of integers rounded to the nearest integer, halves away from 0.
RoundDiv(a, b) == Sgn(a) * Sgn(b) * ((2 * Abs(a) + Abs(b)) \div (2 * Abs(b)))

\* The quotient of integers rounded away from 0: like a double quotient, it
\* is 0 only when the dividend is.
AwayDiv(a, b) == Sgn(a) * Sgn(b) * ((Abs(a) + Abs(b) - 1) \div Abs(b))

\* a / b with the IEEE special cases; a finite quotient is rounded away from 0.
XDiv(a, b) ==
    IF IsNaN(a) \/ IsNaN(b) THEN NaN
    ELSE IF IsInf(a) THEN (IF IsInf(b) THEN NaN
                           ELSE IF b < 0 THEN -a ELSE a)
    ELSE IF IsInf(b) THEN 0
    ELSE IF b = 0 THEN (IF a = 0 THEN NaN ELSE Sgn(a) * Inf)
    ELSE AwayDiv(a, b)

\* a * b of two fixed-point fractions, or of a fraction and a quantity.
FMul(a, b) ==
    IF IsNaN(a) \/ IsNaN(b) THEN NaN ELSE RoundDiv(a * b, ONE)

\* a % m of JavaScript: the remainder has the sign of the dividend.
JsMod(a, m) ==
    IF ~IsFinite(a) \/ IsNaN(m) \/ m = 0 THEN NaN
    ELSE IF IsInf(m) THEN a
    ELSE Sgn(a) * (Abs(a) % Abs(m))

RECURSIVE SqrtSearch(_, _, _)
SqrtSearch(n, lo, hi) ==
    IF lo >= hi THEN lo
    ELSE LET mid == (lo + hi + 1) \div 2
         IN  IF mid * mid <= n THEN SqrtSearch(n, mid, hi)
             ELSE SqrtSearch(n, lo, mid - 1)

\* Math.sqrt of a non-negative integer, rounded to the nearest integer.
Sqrt(n) ==
    IF IsNaN(n) THEN NaN
    ELSE With(SqrtSearch(n, 0, 46340), LAMBDA f :
             IF n - f * f > f THEN f + 1 ELSE f)

Min(a, b) == IF a < b THEN a ELSE b

Max(a, b) == IF a > b THEN a ELSE b

\* clamp(v, min, max) of MathHelpers: Math.max(min, Math.min(v, max)).
clamp(v, lo, hi) == IF IsNaN(v) THEN NaN ELSE Max(lo, Min(v, hi))

\* ------------------------------------------------------------------------
\* Trigonometry on angle units
\* ------------------------------------------------------------------------

\* ONE * sin(k * pi/90) for k = 0 .. 45, rounded.
SinTable ==
    << 0, 349, 698, 1045, 1392, 1736, 2079, 2419, 2756, 3090, 3420, 3746,
       4067, 4384, 4695, 5000, 5299, 5592, 5878, 6157, 6428, 6691, 6947,
       7193, 7431, 7660, 7880, 8090, 8290, 8480, 8660, 8829, 8988, 9135,
       9272, 9397, 9511, 9613, 9703, 9781, 9848, 9903, 9945, 9976, 9994,
       10000 >>

\* Math.sin of an angle, as a fraction.
Sin(a) ==
    IF ~IsFinite(a) THEN NaN
    ELSE LET m == a % TAU
             h == IF m >= PI THEN m - PI ELSE m
             q == IF h > HALF_PI THEN PI - h ELSE h
         IN  IF m >= PI THEN -SinTable[q + 1] ELSE SinTable[q + 1]

\* Math.cos of an angle, as a fraction.
Cos(a) == IF ~IsFinite(a) THEN NaN ELSE Sin(a + HALF_PI)

\* The angle in 0 .. HALF_PI nearest to the direction of (ax, ay), both
\* non-negative: f counts the table angles that lie below the direction.
NearestAngle(ax, ay) ==
    With(Cardinality({k \in 1 .. HALF_PI : ay * Cos(k) - ax * Sin(k) >= 0}), LAMBDA f :
    With(Min(f + 1, HALF_PI), LAMBDA g :
        IF ax * Cos(g) + ay * Sin(g) > ax * Cos(f) + ay * Sin(f) THEN g ELSE f))

\* Quantities are scaled down before NearestAngle multiplies them by ONE.
RECURSIVE Shrink(_, _)
Shrink(ax, ay) ==
    IF ax <= 100000 /\ ay <= 100000 THEN <<ax, ay>>
    ELSE Shrink(ax \div 2, ay \div 2)

\* Math.atan2(y, x), in (-PI, PI].
Atan2(y, x) ==
    IF IsNaN(y) \/ IsNaN(x) THEN NaN
    ELSE IF y = 0 /\ x = 0 THEN 0
    ELSE With(Shrink(Abs(x), Abs(y)), LAMBDA s :
         With(NearestAngle(s[1], s[2]), LAMBDA b :
             IF x >= 0 THEN (IF y >= 0 THEN b ELSE -b)
             ELSE (IF y >= 0 THEN PI - b ELSE b - PI)))

\* The angle in 0 .. PI whose cosine is nearest to c: the cosine decreases,
\* and f counts the table angles whose cosine is above c.
NearestCos(c) ==
    With(Cardinality({k \in 0 .. PI : Cos(k) > c}), LAMBDA f :
    With(Max(f - 1, 0), LAMBDA g :
    With(Min(f, PI), LAMBDA h :
        IF Abs(Cos(g) - c) <= Abs(Cos(h) - c) THEN g ELSE h)))

\* Math.acos of a fraction: NaN outside [-1, 1].
Acos(c) ==
    IF IsNaN(c) \/ c > ONE \/ c < -ONE THEN NaN ELSE NearestCos(c)

\* angleDist(a0, a1) of MathHelpers: the shortest signed difference from a0
\* to a1, in [-PI, PI].
angleDist(a0, a1) ==
    With(JsMod(XSub(a1, a0), TAU), LAMBDA da :
        XSub(JsMod(XMul(2, da), TAU), da))

\* ------------------------------------------------------------------------
\* gl-matrix vec3 and the vector helpers of MathHelpers
\* ------------------------------------------------------------------------

\* vec3.create().
Vec3Zero == <<0, 0, 0>>

\* A vec3 read from past the end of the path.
Vec3NaN == <<NaN, NaN, NaN>>

HasNaN(v) == \E i \in DOMAIN v : IsNaN(v[i])

vec3sub(a, b) == [i \in 1 .. 3 |-> XSub(a[i], b[i])]

\* vec3.scaleAndAdd(out, a, b, scale): a + b * scale.
vec3scaleAndAdd(a, b, scale) == [i \in 1 .. 3 |-> XAdd(a[i], XMul(b[i], scale))]

\* vec3.scale of a vector by a fraction.
vec3scaleF(a, f) == [i \in 1 .. 3 |-> FMul(a[i], f)]

\* The squared length: the model compares distances by their squares, which
\* is exact on integers.
vec3sqrLen(v) == IF HasNaN(v) THEN NaN ELSE v[1] * v[1] + v[2] * v[2] + v[3] * v[3]

vec3sqrDist(a, b) == vec3sqrLen(vec3sub(a, b))

vec3length(v) == Sqrt(vec3sqrLen(v))

\* Math.hypot(a, b).
hypot(a, b) == IF IsNaN(a) \/ IsNaN(b) THEN NaN ELSE Sqrt(a * a + b * b)

\* vec3.normalize: a unit vector in fractions; the zero vector stays zero.
vec3normalize(v) ==
    IF HasNaN(v) THEN Vec3NaN
    ELSE IF vec3sqrLen(v) = 0 THEN Vec3Zero
    ELSE LET len == vec3length(v)
         IN  [i \in 1 .. 3 |-> RoundDiv(v[i] * ONE, len)]

\* normToLength(dst, len) of MathHelpers: dst scaled to the length len when
\* its own length is positive, else left as it is.
normToLength(v, len) ==
    IF HasNaN(v) \/ vec3sqrLen(v) = 0 THEN v
    ELSE LET vlen == vec3length(v)
         IN  [i \in 1 .. 3 |-> RoundDiv(v[i] * len, vlen)]

\* vec3.dist(a, b) <= r.
DistLessEq(a, b, r) ==
    LET d2 == vec3sqrDist(a, b)
    IN  ~IsNaN(d2) /\ ~IsNaN(r) /\ r >= 0 /\ d2 <= r * r

\* ------------------------------------------------------------------------
\* gl-matrix mat4 (affine: the bottom row is 0 0 0 1)
\*   r: the rotation part, row by row, in fractions;  t: the translation
\*   column (dst[12], dst[13], dst[14]), in length units.
\* ------------------------------------------------------------------------

At(m, i, j) == m.r[3 * (i - 1) + j]

\* mat4.create() and mat4.identity().
Identity == [r |-> <<ONE, 0, 0, 0, ONE, 0, 0, 0, ONE>>, t |-> Vec3Zero]

Dot3(a1, a2, a3, b1, b2, b3) ==
    IF IsNaN(a1) \/ IsNaN(a2) \/ IsNaN(a3) \/ IsNaN(b1) \/ IsNaN(b2) \/ IsNaN(b3)
    THEN NaN
    ELSE RoundDiv(a1 * b1 + a2 * b2 + a3 * b3, ONE)

Cell(k) == <<((k - 1) \div 3) + 1, ((k - 1) % 3) + 1>>

\* mat4.mul(out, a, b): a * b.  Every entry of row i has the term
\* a[i][3] * b[3][j], the translation of a times 0 or 1: a NaN translation
\* makes the whole row NaN.
mat4mul(a, b) ==
    [r |-> [k \in 1 .. 9 |->
                LET i == Cell(k)[1]
                    j == Cell(k)[2]
                IN  XAdd(Dot3(At(a, i, 1), At(a, i, 2), At(a, i, 3),
                              At(b, 1, j), At(b, 2, j), At(b, 3, j)),
                         XMul(a.t[i], 0))],
     t |-> [i \in 1 .. 3 |->
                XAdd(Dot3(At(a, i, 1), At(a, i, 2), At(a, i, 3),
                          b.t[1], b.t[2], b.t[3]),
                     a.t[i])]]

\* computeModelMatrixSRT(dst, 1, 1, 1, rx, ry, rz, tx, ty, tz) of MathHelpers.
computeModelMatrixSRT(rx, ry, rz, tx, ty, tz) ==
    LET sinX == Sin(rx)
        cosX == Cos(rx)
        sinY == Sin(ry)
        cosY == Cos(ry)
        sinZ == Sin(rz)
        cosZ == Cos(rz)
    IN  [r |-> << FMul(cosY, cosZ),
                  XSub(FMul(FMul(sinX, cosZ), sinY), FMul(cosX, sinZ)),
                  XAdd(FMul(FMul(cosX, cosZ), sinY), FMul(sinX, sinZ)),
                  FMul(sinZ, cosY),
                  XAdd(FMul(FMul(sinX, sinZ), sinY), FMul(cosX, cosZ)),
                  XSub(FMul(FMul(cosX, sinZ), sinY), FMul(sinX, cosZ)),
                  XNeg(sinY),
                  FMul(sinX, cosY),
                  FMul(cosY, cosX) >>,
         t |-> <<tx, ty, tz>>]

\* setMatrixTranslation(dst, v) of MathHelpers.
setMatrixTranslation(m, v) == [m EXCEPT !.t = v]

\* mat4.getTranslation(out, m).
getTranslation(m) == m.t

\* getMatrixAxisZ(dst, m) of MathHelpers: the third column of the rotation.
getMatrixAxisZ(m) == <<At(m, 1, 3), At(m, 2, 3), At(m, 3, 3)>>

\* mat4.fromRotation(out, rad, axis): the rotation by rad about axis.  It
\* returns without writing out when the axis has no length: old is out's
\* value before the call.
mat4fromRotation(old, rad, axis) ==
    IF ~HasNaN(axis) /\ vec3sqrLen(axis) = 0 THEN old
    ELSE With(vec3normalize(axis), LAMBDA n :
         With(Sin(rad), LAMBDA s :
         With(Cos(rad), LAMBDA c :
         LET x == n[1]
             y == n[2]
             z == n[3]
             t == XSub(ONE, c)
         IN  [r |-> << XAdd(FMul(FMul(x, x), t), c),
                       XSub(FMul(FMul(x, y), t), FMul(z, s)),
                       XAdd(FMul(FMul(x, z), t), FMul(y, s)),
                       XAdd(FMul(FMul(y, x), t), FMul(z, s)),
                       XAdd(FMul(FMul(y, y), t), c),
                       XSub(FMul(FMul(y, z), t), FMul(x, s)),
                       XSub(FMul(FMul(z, x), t), FMul(y, s)),
                       XAdd(FMul(FMul(z, y), t), FMul(x, s)),
                       XAdd(FMul(FMul(z, z), t), c) >>,
              t |-> Vec3Zero])))

\* mat4.rotateX(out, a, rad): a * Rx(rad).
mat4rotateX(a, rad) == mat4mul(a, computeModelMatrixSRT(rad, 0, 0, 0, 0, 0))

\* ------------------------------------------------------------------------
\* objects.ts: constants and dispatch
\* ------------------------------------------------------------------------

\* null, for motion parameters, a motion state or a function.
Null == [null |-> TRUE]

\* speedTable, in length units per frame.
speedTable == <<3, 10, 20, 40, 60, 80, 100, 150, 200, 400, 2000, 0>>

\* enum Axis.
AxisX == 0

AxisY == 1

AxisZ == 2

\* enum ObjectId.
HUKUBIKI_C == 35

COMPASS_A == 47

BALANCEDOLL01_C == 363

WINDMILL01_G == 710

PLANE02_F == 898

PLANE03_F == 899

\* The object ids that animFuncSelect maps to vehicleAnimFunc.
VehicleIds ==
    {145, 146, 147, 148, 149, 150, 418, 307, 309, 310, 342, 343, 357, 434,
     435, 688, 544, 753, 754, 1029}

animFuncSelect(objectId) ==
    IF objectId = HUKUBIKI_C THEN "animFunc_HUKUBIKI_C"
    ELSE IF objectId = COMPASS_A THEN "animFunc_COMPASS_A"
    ELSE IF objectId = WINDMILL01_G THEN "animFunc_WINDMILL01_G"
    ELSE IF objectId \in VehicleIds THEN "vehicleAnimFunc"
    ELSE IF objectId = PLANE02_F THEN "animFunc_PLANE02_F"
    ELSE IF objectId = PLANE03_F THEN "animFunc_PLANE03_F"
    ELSE "null"

\* enum MotionID.
COLLISION_PATH == 2

MISC == 22

SIMPLE_PATH == 29

motionFuncSelect(motionID, globalMoveIndex) ==
    IF motionID = COLLISION_PATH \/ motionID = SIMPLE_PATH THEN "followPath"
    ELSE IF motionID = MISC
         THEN (IF globalMoveIndex = 21 THEN "miscSpinMotionFunc"
               ELSE IF globalMoveIndex = 22 THEN "miscBobMotionFunc"
               ELSE IF globalMoveIndex = 30 THEN "miscFlipMotionFunc"
               ELSE IF globalMoveIndex = 32 THEN "miscSwayMotionFunc"
               ELSE IF globalMoveIndex = 34 THEN "miscWhackAMoleMotionFunc"
               ELSE "null")
    ELSE "null"

\* ------------------------------------------------------------------------
\* objects.ts: the path follower
\* ------------------------------------------------------------------------

\* The number of waypoints of a path (a flat array, four slots a point).
waypointCount(path) == Len(path) \div 4

\* pathPoint(dst, path, i): a read past the end of the array is undefined,
\* and vec3.set stores it as NaN.
pathPoint(path, i) ==
    [k \in 1 .. 3 |-> IF 4 * i + k \in 1 .. Len(path) THEN path[4 * i + k] ELSE NaN]

\* The loop of findPathStartIndex keeping the second nearest waypoint when
\* it finds a new nearest one.
RECURSIVE findPathStartLoopKeepSec(_, _, _, _)
findPathStartLoopKeepSec(pos, path, i, acc) ==
    IF ~(4 * i < Len(path)) THEN acc
    ELSE LET d == vec3sqrDist(pos, pathPoint(path, i))
         IN  findPathStartLoopKeepSec(pos, path, i + 1,
                 IF Less(d, acc.minDist)
                 THEN [acc EXCEPT !.minPoint = i, !.minDist = d]
                 ELSE IF acc.secPoint < 0 \/ Less(d, acc.secDist)
                 THEN [acc EXCEPT !.secDist = d, !.secPoint = i]
                 ELSE acc)

\* The loop of findPathStartIndex from waypoint i on; minDist and secDist
\* hold squared distances.
RECURSIVE findPathStartLoop(_, _, _, _)
findPathStartLoop(pos, path, i, acc) ==
    IF ~(4 * i < Len(path)) THEN acc
    ELSE LET d == vec3sqrDist(pos, pathPoint(path, i))
         IN  findPathStartLoop(pos, path, i + 1,
                 IF Less(d, acc.minDist)
                 THEN [minPoint |-> i, secPoint |-> acc.minPoint,
                       minDist |-> d, secDist |-> acc.minDist]
                 ELSE IF acc.secPoint < 0 \/ Less(d, acc.secDist)
                 THEN [acc EXCEPT !.secDist = d, !.secPoint = i]
                 ELSE acc)

\* findPathStartIndex returning the nearest waypoint instead of the later of
\* the two nearest.
findPathStartIndexNearest(pos, path) ==
    With(findPathStartLoop(pos, path, 1,
                           [minPoint |-> 0, secPoint |-> -1, secDist |-> 0,
                            minDist |-> vec3sqrDist(pos, pathPoint(path, 0))]),
         LAMBDA acc : acc.minPoint)

findPathStartIndex(pos, path) ==
    With(findPathStartLoop(pos, path, 1,
                           [minPoint |-> 0, secPoint |-> -1, secDist |-> 0,
                            minDist |-> vec3sqrDist(pos, pathPoint(path, 0))]),
         LAMBDA acc :
             IF acc.minPoint = 0 /\ acc.secPoint # 1 THEN 0
             ELSE IF acc.secPoint = 0 /\ acc.minPoint # 1 THEN 0
             ELSE Max(acc.minPoint, acc.secPoint))

\* v with yOffset subtracted from its y.
SubY(v, yOffset) == [v EXCEPT ![2] = XSub(v[2], yOffset)]

\* The pitch part of targetNextPoint (lines 348-365): velocity is the
\* difference target - pos, pathScratch the Z axis of final.
targetNextPitch(motion, velocity, pathScratch, distToTarget) ==
    With(vec3normalize(velocity), LAMBDA vel :
    With(vec3normalize(pathScratch), LAMBDA fwd :
    With(XAdd(FMul(XNeg(vel[2]), fwd[2]),
              FMul(hypot(vel[1], vel[3]), hypot(fwd[1], fwd[3]))), LAMBDA dot :
    With(Acos(clamp(dot, -ONE, ONE)), LAMBDA acos :
    With(IF Less(XNeg(vel[2]), fwd[2]) THEN XNeg(acos) ELSE acos, LAMBDA angleTarget :
        [motion EXCEPT
            !.reference = motion.base,
            !.axis = vec3normalize(<<velocity[3], 0, XNeg(velocity[1])>>),
            !.velocity = vel,
            !.angleTarget = angleTarget,
            \* angleTarget / framesUntilPitch, framesUntilPitch being 4 or
            \* 0.25 * distToTarget / speed
            !.angleStep = IF motion.speed = 0 THEN XDiv(angleTarget, 4)
                          ELSE XDiv(XMul(angleTarget, 4 * motion.speed), distToTarget),
            !.angle = 0])))))

\* The index after pathIndex, back to 0 at the end of the path (lines 330-332).
nextPathIndex(pathIndex, path) ==
    IF (pathIndex + 1) * 4 = Len(path) THEN 0 ELSE pathIndex + 1

targetNextPoint(motion, yOffset) ==
    With(nextPathIndex(motion.pathIndex, motion.parameters.pathPoints), LAMBDA pathIndex :
    With(SubY(pathPoint(motion.parameters.pathPoints, pathIndex), yOffset), LAMBDA target :
    With(vec3sub(target, motion.target), LAMBDA velocity :
    With(vec3length(velocity), LAMBDA distToTarget :
    With(getMatrixAxisZ(motion.final), LAMBDA pathScratch :
    With(Atan2(pathScratch[1], pathScratch[3]), LAMBDA eulerY :
    With(XAdd(PI, Atan2(velocity[1], velocity[3])), LAMBDA eulerTargetY :
    With([motion EXCEPT
             !.pos = motion.target,
             !.pathIndex = pathIndex,
             !.target = target,
             !.velocity = velocity,
             !.euler[2] = eulerY,
             !.eulerTarget[2] = eulerTargetY,
             \* angleDist / framesUntilYaw, framesUntilYaw being
             \* distToTarget / (speed === 0 ? 30 : speed)
             !.eulerStep[2] =
                 XDiv(XMul(angleDist(eulerY, eulerTargetY),
                           IF motion.speed = 0 THEN 30 * UNIT ELSE motion.speed),
                      distToTarget)], LAMBDA turned :
    With(IF motion.adjustPitch
         THEN targetNextPitch(turned, velocity, pathScratch, distToTarget)
         ELSE turned, LAMBDA pitched :
        [pitched EXCEPT !.velocity = normToLength(pitched.velocity, motion.speed)])))))))))

\* adjustBasePitch(motion, deltaTimeInFrames): the motion state and the
\* module's pitchTransformScratch after the call.
adjustBasePitch(motion, scratch, deltaTimeInFrames) ==
    IF XMul(motion.angleStep, deltaTimeInFrames) = 0
    THEN [motion |-> motion, scratch |-> scratch]
    ELSE With(XAdd(motion.angle, XMul(motion.angleStep, deltaTimeInFrames)), LAMBDA angle :
         With(XMul(XSub(motion.angleTarget, angle), motion.angleStep), LAMBDA delta :
             IF Less(delta, 0)
             THEN With(XNeg(Atan2(motion.velocity[2],
                                  hypot(motion.velocity[1], motion.velocity[3]))),
                       LAMBDA pitch :
                           [motion |-> [motion EXCEPT
                                           !.angleStep = 0,
                                           !.angle = motion.angleTarget,
                                           !.base = mat4fromRotation(motion.base, pitch,
                                                                     motion.axis)],
                            scratch |-> scratch])
             ELSE With(mat4fromRotation(scratch, angle, motion.axis), LAMBDA rot :
                       [motion |-> [motion EXCEPT
                                       !.angle = angle,
                                       !.base = mat4mul(motion.reference, rot)],
                        scratch |-> rot])))

\* The first call of followPath (lines 388-404).
followPathStart(motion, maxY) ==
    With(findPathStartIndex(motion.pos, motion.parameters.pathPoints), LAMBDA start :
    With(SubY(pathPoint(motion.parameters.pathPoints, start), maxY), LAMBDA pos :
    With(SubY(pathPoint(motion.parameters.pathPoints, start + 1), maxY), LAMBDA target :
        [motion EXCEPT
            !.base = Identity,
            !.pos = pos,
            !.pathIndex = start + 1,
            !.target = target,
            !.euler[2] = XAdd(PI, Atan2(XSub(target[1], pos[1]), XSub(target[3], pos[3]))),
            !.velocity = normToLength(vec3sub(target, pos), motion.speed)])))

\* The yaw step without the check for overshoot.
followPathYawUnchecked(motion, deltaTimeInFrames) ==
    [motion EXCEPT !.euler[2] = XAdd(motion.euler[2],
                                     XMul(motion.eulerStep[2], deltaTimeInFrames))]

\* The yaw step of followPath (lines 412-416).
followPathYaw(motion, deltaTimeInFrames) ==
    With(XAdd(motion.euler[2], XMul(motion.eulerStep[2], deltaTimeInFrames)), LAMBDA eulerY :
        IF NotSame(MathSign(motion.eulerStep[2]),
                   MathSign(angleDist(eulerY, motion.eulerTarget[2])))
        THEN [motion EXCEPT !.euler[2] = motion.eulerTarget[2], !.eulerStep[2] = 0]
        ELSE [motion EXCEPT !.euler[2] = eulerY])

\* The test for reaching the target with the distance of a whole frame,
\* whatever deltaTimeInFrames is.
reachesTargetInAFrame(motion, deltaTimeInFrames) ==
    DistLessEq(motion.target, motion.pos, motion.speed)

\* Whether followPath advances to the next waypoint (line 409).
reachesTarget(motion, deltaTimeInFrames) ==
    DistLessEq(motion.target, motion.pos, motion.speed * deltaTimeInFrames)

\* followPath(object, deltaTimeInFrames, motion): the motion state, the
\* scratch matrix and the returned flag.
followPath(maxY, deltaTimeInFrames, motion, scratch) ==
    With(IF motion.pathIndex < 0 THEN followPathStart(motion, maxY) ELSE motion,
         LAMBDA started :
    With(IF started.adjustPitch
         THEN adjustBasePitch(started, scratch, deltaTimeInFrames)
         ELSE [motion |-> started, scratch |-> scratch], LAMBDA pitched :
    With(IF reachesTarget(pitched.motion, deltaTimeInFrames)
         THEN targetNextPoint(pitched.motion, maxY)
         ELSE pitched.motion, LAMBDA aimed :
    With(followPathYaw(aimed, deltaTimeInFrames), LAMBDA turned :
        [motion |-> [turned EXCEPT
                        !.pos = vec3scaleAndAdd(turned.pos, turned.velocity,
                                                deltaTimeInFrames)],
         scratch |-> pitched.scratch,
         rebuild |-> TRUE]))))

\* ------------------------------------------------------------------------
\* objects.ts: the misc motions
\* ------------------------------------------------------------------------

\* rad radians, given in thousandths, times deltaTimeInFrames, in angle units.
RadiansE3(radE3, deltaTimeInFrames) ==
    RoundDiv(radE3 * deltaTimeInFrames * UNITS_PER_RADIAN_E3, 1000 * 1000)

\* deltaTimeInFrames * Math.PI / 45.
phaseStep(deltaTimeInFrames) == (deltaTimeInFrames * PI) \div 45

\* Math.random() * range, in whole frames; random is a fraction in [0, 1).
randomFrames(random, range) == (random * range) \div ONE

miscSpinMotionFunc(deltaTimeInFrames, motion) ==
    [motion |-> [motion EXCEPT !.euler[2] = motion.euler[2] + RadiansE3(50, deltaTimeInFrames)],
     rebuild |-> TRUE]

\* miscBobMotionFunc swinging by .30 of bbox.maxY instead of .15.
miscBobMotionFuncWide(spawnY, maxY, deltaTimeInFrames, random, motion) ==
    LET timer == IF motion.timer = -1 THEN randomFrames(random, 60) ELSE motion.timer
    IN  IF timer < deltaTimeInFrames
        THEN LET angle == motion.angle + phaseStep(deltaTimeInFrames)
             IN  [motion |-> [motion EXCEPT
                                 !.timer = timer,
                                 !.angle = angle,
                                 !.pos[2] = spawnY + RoundDiv(maxY * 30 * Sin(angle), 100 * ONE)],
                  rebuild |-> FALSE]
        ELSE [motion |-> [motion EXCEPT !.timer = timer - deltaTimeInFrames],
              rebuild |-> FALSE]

miscBobMotionFunc(spawnY, maxY, deltaTimeInFrames, random, motion) ==
    LET timer == IF motion.timer = -1 THEN randomFrames(random, 60) ELSE motion.timer
    IN  IF timer < deltaTimeInFrames
        THEN LET angle == motion.angle + phaseStep(deltaTimeInFrames)
             IN  [motion |-> [motion EXCEPT
                                 !.timer = timer,
                                 !.angle = angle,
                                 !.pos[2] = spawnY + RoundDiv(maxY * 15 * Sin(angle), 100 * ONE)],
                  rebuild |-> FALSE]
        ELSE [motion |-> [motion EXCEPT !.timer = timer - deltaTimeInFrames],
              rebuild |-> FALSE]

\* miscFlipMotionFunc asking for no rebuild.
miscFlipMotionFuncNoRebuild(deltaTimeInFrames, motion) ==
    [motion |-> [motion EXCEPT !.euler[1] = motion.euler[1] - RadiansE3(50, deltaTimeInFrames)],
     rebuild |-> FALSE]

miscFlipMotionFunc(deltaTimeInFrames, motion) ==
    [motion |-> [motion EXCEPT !.euler[1] = motion.euler[1] - RadiansE3(50, deltaTimeInFrames)],
     rebuild |-> TRUE]

\* transformVec3Mat4w0(dst, m, v) of MathHelpers: m applied to the direction v.
transformVec3Mat4w0(m, v) ==
    [i \in 1 .. 3 |-> Dot3(At(m, i, 1), At(m, i, 2), At(m, i, 3), v[1], v[2], v[3])]

\* miscSwayMotionFunc without bottomOffset added to pos.y.
miscSwayMotionFuncNoLift(objectId, spawn, bottomOffset, deltaTimeInFrames, motion) ==
    LET angle == motion.angle + phaseStep(deltaTimeInFrames)
        roll == RoundDiv(Sin(angle) * TAU, 36 * ONE)
        up == transformVec3Mat4w0(motion.final, <<Sin(roll), -Cos(roll), 0>>)
        offset == [i \in 1 .. 3 |-> FMul(up[i], bottomOffset)]
        swayed == [motion EXCEPT !.angle = angle, !.euler[3] = roll]
    IN  [motion |-> IF objectId # BALANCEDOLL01_C
                    THEN [swayed EXCEPT !.pos = << XAdd(spawn[1], offset[1]),
                                                   XAdd(spawn[2], offset[2]),
                                                   XAdd(spawn[3], offset[3]) >>]
                    ELSE swayed,
         rebuild |-> TRUE]

miscSwayMotionFunc(objectId, spawn, bottomOffset, deltaTimeInFrames, motion) ==
    LET angle == motion.angle + phaseStep(deltaTimeInFrames)
        roll == RoundDiv(Sin(angle) * TAU, 36 * ONE)
        up == transformVec3Mat4w0(motion.final, <<Sin(roll), -Cos(roll), 0>>)
        offset == [i \in 1 .. 3 |-> FMul(up[i], bottomOffset)]
        swayed == [motion EXCEPT !.angle = angle, !.euler[3] = roll]
    IN  [motion |-> IF objectId # BALANCEDOLL01_C
                    THEN [swayed EXCEPT !.pos = << XAdd(spawn[1], offset[1]),
                                                   XAdd(XAdd(spawn[2], offset[2]), bottomOffset),
                                                   XAdd(spawn[3], offset[3]) >>]
                    ELSE swayed,
         rebuild |-> TRUE]

\* miscWhackAMoleMotionFunc without the reset of the angle past pi.
miscWhackAMoleMotionFuncNoReset(spawnY, firstBBox, deltaTimeInFrames, random, motion) ==
    LET begun == IF motion.timer = -1
                 THEN [motion EXCEPT !.timer = randomFrames(random, 150) + 60,
                                     !.angle = HALF_PI,
                                     !.state = (motion.state + 1) % 2,
                                     !.angleStep = PI \div 45]
                 ELSE motion
    IN  IF begun.timer < deltaTimeInFrames
        THEN LET angle == begun.angle + begun.angleStep * deltaTimeInFrames
                 over == angle > PI
                 buriedDepth == firstBBox.maxY + (firstBBox.maxY - firstBBox.minY)
                 ease == IF begun.state = 0 THEN ONE - Sin(angle) ELSE Sin(angle)
             IN  [motion |-> [begun EXCEPT
                                 !.angle = angle,
                                 !.timer = IF over THEN -1 ELSE begun.timer,
                                 !.pos[2] = spawnY + FMul(buriedDepth, ease)],
                  rebuild |-> FALSE]
        ELSE [motion |-> [begun EXCEPT !.timer = begun.timer - deltaTimeInFrames],
              rebuild |-> FALSE]

miscWhackAMoleMotionFunc(spawnY, firstBBox, deltaTimeInFrames, random, motion) ==
    LET begun == IF motion.timer = -1
                 THEN [motion EXCEPT !.timer = randomFrames(random, 150) + 60,
                                     !.angle = HALF_PI,
                                     !.state = (motion.state + 1) % 2,
                                     !.angleStep = PI \div 45]
                 ELSE motion
    IN  IF begun.timer < deltaTimeInFrames
        THEN LET angle == begun.angle + begun.angleStep * deltaTimeInFrames
                 over == angle > PI
                 phase == IF over THEN 0 ELSE angle
                 buriedDepth == firstBBox.maxY + (firstBBox.maxY - firstBBox.minY)
                 ease == IF begun.state = 0 THEN ONE - Sin(phase) ELSE Sin(phase)
             IN  [motion |-> [begun EXCEPT
                                 !.angle = phase,
                                 !.timer = IF over THEN -1 ELSE begun.timer,
                                 !.pos[2] = spawnY + FMul(buriedDepth, ease)],
                  rebuild |-> FALSE]
        ELSE [motion |-> [begun EXCEPT !.timer = begun.timer - deltaTimeInFrames],
              rebuild |-> FALSE]

\* ------------------------------------------------------------------------
\* objects.ts: the animation functions
\* ------------------------------------------------------------------------

\* The rotation by angle about one axis, as computeModelMatrixSRT builds it.
AxisRotation(axis, angle) ==
    computeModelMatrixSRT(IF axis = AxisX THEN angle ELSE 0,
                          IF axis = AxisY THEN angle ELSE 0,
                          IF axis = AxisZ THEN angle ELSE 0, 0, 0, 0)

\* rotateObject(modelInstance, deltaTimeInFrames, axis, value); value is
\* given in tenths (16.8 is 168).
rotateObject(instance, deltaTimeInFrames, axis, value10) ==
    LET angle == RoundDiv(value10 * deltaTimeInFrames * UNITS_PER_RADIAN_E3, -60 * 10 * 1000)
    IN  [instance EXCEPT
            !.modelMatrix = mat4mul(instance.modelMatrix, AxisRotation(axis, angle)),
            !.euler[axis + 1] = instance.euler[axis + 1] + angle]

\* rotateObject applied to object.modelInstance[index].
rotateInstance(instances, index, deltaTimeInFrames, axis, value10) ==
    [instances EXCEPT ![index + 1] = rotateObject(instances[index + 1], deltaTimeInFrames, axis, value10)]

\* vehicleAnimFunc without the test for a missing motion state.
vehicleAnimFuncAlways(instances, hasMotionState, deltaTimeInFrames) ==
    rotateInstance(rotateInstance(instances, 1, deltaTimeInFrames, AxisX, -40),
                   2, deltaTimeInFrames, AxisX, -40)

vehicleAnimFunc(instances, hasMotionState, deltaTimeInFrames) ==
    IF ~hasMotionState THEN instances
    ELSE rotateInstance(rotateInstance(instances, 1, deltaTimeInFrames, AxisX, -40),
                        2, deltaTimeInFrames, AxisX, -40)

\* this.animFunc(this, deltaTimeInFrames).
callAnimFunc(func, instances, hasMotionState, deltaTimeInFrames) ==
    IF func = "vehicleAnimFunc"
    THEN vehicleAnimFunc(instances, hasMotionState, deltaTimeInFrames)
    ELSE IF func = "animFunc_HUKUBIKI_C"
    THEN rotateInstance(instances, 1, deltaTimeInFrames, AxisZ, 10)
    ELSE IF func = "animFunc_COMPASS_A"
    THEN rotateInstance(instances, 1, deltaTimeInFrames, AxisY, 10)
    ELSE IF func = "animFunc_WINDMILL01_G"
    THEN rotateInstance(instances, 1, deltaTimeInFrames, AxisZ, 120)
    ELSE IF func = "animFunc_PLANE02_F"
    THEN rotateInstance(rotateInstance(instances, 1, deltaTimeInFrames, AxisY, 168),
                        2, deltaTimeInFrames, AxisX, 168)
    ELSE IF func = "animFunc_PLANE03_F"
    THEN rotateInstance(rotateInstance(instances, 0, deltaTimeInFrames, AxisZ, 168),
                        2, deltaTimeInFrames, AxisZ, 168)
    ELSE instances

\* ------------------------------------------------------------------------
\* fetch.ts: DataFetcherRequest and DataFetcher
\* ------------------------------------------------------------------------

VARIABLES
    requests,             \* DataFetcher.requests: the pending requests, each
                          \* the number of its DataFetcherRequest
    dataFetcherRequest,   \* the DataFetcherRequest objects made so far, in
                          \* the order of their construction
    doneRequestCount,     \* DataFetcher.doneRequestCount
    aborted,              \* DataFetcher.aborted
    progressMeter,        \* the fraction last handed to progressMeter.setProgress
    fetched               \* the outcome of every fetchData call so far

fetchVars == <<requests, dataFetcherRequest, doneRequestCount, aborted, progressMeter,
               fetched>>

\* DataFetcher.maxParallelRequests.
maxParallelRequests == 2

\* A progress of 1.0; progress is counted in halves.
WHOLE == 2

IS_DEVELOPMENT == FALSE

\* A url is the sequence of its segments.
getDataStorageBaseURL == IF IS_DEVELOPMENT THEN <<"", "data">> ELSE <<"https://noclip.beyond3d.com">>

\* url.startsWith(`data/`)
startsWithData(url) == Len(url) > 1 /\ url[1] = "data"

getDataURLForPath(url) == getDataStorageBaseURL \o url

\* new DataFetcherRequest(url). request is the field of that name, "null" or
\* "xhr"; readyState and handlers are the state of the XMLHttpRequest that
\* start makes and whether its onload, onerror and onprogress are set;
\* starts counts the calls of start.
newDataFetcherRequest(url) ==
    [url |-> url, request |-> "null", readyState |-> "unsent", handlers |-> FALSE,
     progress |-> 0, promise |-> "pending", starts |-> 0]

\* DataFetcherRequest.start().
start(request) ==
    [request EXCEPT !.request = "xhr", !.readyState = "sent", !.handlers = TRUE,
                    !.starts = request.starts + 1]

\* DataFetcherRequest.destroy().
destroy(request) == [request EXCEPT !.request = "null", !.handlers = FALSE]

\* DataFetcherRequest.abort() forgetting the XMLHttpRequest without aborting
\* it or taking its handlers off.
abortForgetting(request) == [request EXCEPT !.request = "null"]

\* DataFetcherRequest.abort(): XMLHttpRequest.abort() ends a request under
\* way.
abort(request) ==
    destroy(IF request.request # "null" /\ request.readyState = "sent"
            THEN [request EXCEPT !.readyState = "aborted"]
            ELSE request)

\* The sum of the progress of the pending requests from the i-th on.
RECURSIVE sumProgress(_, _, _)
sumProgress(pending, made, i) ==
    IF i > Len(pending) THEN 0
    ELSE made[pending[i]].progress + sumProgress(pending, made, i + 1)

\* DataFetcher.calcProgress(), as numerator and denominator.
calcProgress(pending, made, done) ==
    <<sumProgress(pending, made, 1) + WHOLE * done, WHOLE * (Len(pending) + done)>>

\* DataFetcher.pump() starting every pending request that is not started.
pumpAll(pending, made) ==
    [id \in 1 .. Len(made) |->
        IF /\ \E i \in 1 .. Len(pending) : pending[i] = id
           /\ made[id].request = "null"
        THEN start(made[id])
        ELSE made[id]]

\* DataFetcher.pump(): the requests after it.
pump(pending, made) ==
    [id \in 1 .. Len(made) |->
        IF /\ \E i \in 1 .. (IF Len(pending) < maxParallelRequests
                             THEN Len(pending) ELSE maxParallelRequests) : pending[i] = id
           /\ made[id].request = "null"
        THEN start(made[id])
        ELSE made[id]]

\* this.requests.indexOf(request), counted from 1; 0 stands for -1.
indexOf(pending, id) ==
    IF \E i \in 1 .. Len(pending) : pending[i] = id
    THEN CHOOSE i \in 1 .. Len(pending) : pending[i] = id
    ELSE 0

\* this.requests.splice(index, 1): an index of -1 counts from the end.
splice(pending, index) ==
    IF Len(pending) = 0 THEN pending
    ELSE [i \in 1 .. Len(pending) - 1 |->
             IF i < (IF index = 0 THEN Len(pending) ELSE index)
             THEN pending[i] ELSE pending[i + 1]]

\* new DataFetcher(abortSignal, progressMeter).
newDataFetcher ==
    /\ requests = <<>>
    /\ dataFetcherRequest = <<>>
    /\ doneRequestCount = 0
    /\ aborted = FALSE
    /\ progressMeter = <<0, 0>>
    /\ fetched = <<>>

\* setProgress().
setProgress(pending, made, done) == progressMeter' = calcProgress(pending, made, done)

\* fetchData(path): it throws when the fetcher is aborted and when the
\* assertion of getDataURLForPath fails, and otherwise queues a request and
\* returns its promise.
fetchData(path) ==
    IF aborted
    THEN /\ fetched' = Append(fetched, "throw")
         /\ UNCHANGED <<requests, dataFetcherRequest, doneRequestCount, aborted,
                        progressMeter>>
    ELSE IF startsWithData(path)
    THEN /\ fetched' = Append(fetched, "assert")
         /\ UNCHANGED <<requests, dataFetcherRequest, doneRequestCount, aborted,
                        progressMeter>>
    ELSE /\ requests' = Append(requests, Len(dataFetcherRequest) + 1)
         /\ dataFetcherRequest' =
                pump(requests',
                     Append(dataFetcherRequest,
                            newDataFetcherRequest(getDataURLForPath(path))))
         /\ fetched' = Append(fetched, "promise")
         /\ UNCHANGED <<doneRequestCount, aborted, progressMeter>>

\* The ondone of fetchData, after onload set progress and called onprogress:
\* the made requests are loaded.
ondone(id, loaded) ==
    /\ doneRequestCount' = doneRequestCount + 1
    /\ requests' = splice(requests, indexOf(requests, id))
    /\ dataFetcherRequest' =
           [pump(requests', [loaded EXCEPT ![id] = destroy(loaded[id])])
               EXCEPT ![id].promise = "resolved"]

\* The load event of the XMLHttpRequest of request id.
onload(id) ==
    /\ dataFetcherRequest[id].readyState = "sent"
    /\ IF dataFetcherRequest[id].handlers
       THEN \E loaded \in {[dataFetcherRequest EXCEPT ![id].readyState = "done",
                                                      ![id].progress = WHOLE]} :
                /\ setProgress(requests, loaded, doneRequestCount)
                /\ ondone(id, loaded)
                /\ UNCHANGED <<aborted, fetched>>
       ELSE /\ dataFetcherRequest' = [dataFetcherRequest EXCEPT ![id].readyState = "done"]
            /\ UNCHANGED <<requests, doneRequestCount, aborted, progressMeter, fetched>>

\* The error event of the XMLHttpRequest of request id: onerror writes to the
\* console.
onerror(id) ==
    /\ dataFetcherRequest[id].readyState = "sent"
    /\ dataFetcherRequest' = [dataFetcherRequest EXCEPT ![id].readyState = "failed"]
    /\ UNCHANGED <<requests, doneRequestCount, aborted, progressMeter, fetched>>

\* A progress event of the XMLHttpRequest of request id; loaded is
\* e.loaded / e.total in halves, or -1 when the length is not computable.
onprogress(id, loaded) ==
    /\ dataFetcherRequest[id].readyState = "sent"
    /\ dataFetcherRequest[id].handlers
    /\ dataFetcherRequest' =
           IF loaded >= 0
           THEN [dataFetcherRequest EXCEPT ![id].progress = loaded]
           ELSE dataFetcherRequest
    /\ setProgress(requests, dataFetcherRequest', doneRequestCount)
    /\ UNCHANGED <<requests, doneRequestCount, aborted, fetched>>

\* The listener of the abort event of abortSignal; the signal fires once.
onabort ==
    /\ ~aborted
    /\ aborted' = TRUE
    /\ dataFetcherRequest' =
           [id \in 1 .. Len(dataFetcherRequest) |->
               IF \E i \in 1 .. Len(requests) : requests[i] = id
               THEN abort(dataFetcherRequest[id])
               ELSE dataFetcherRequest[id]]
    /\ requests' = <<>>
    /\ UNCHANGED <<doneRequestCount, progressMeter, fetched>>

\* ------------------------------------------------------------------------
\* objects.ts: ObjectRenderer
\* ------------------------------------------------------------------------

VARIABLES
    objectSpawn,            \* ObjectRenderer.objectSpawn
    bbox,                   \* ObjectRenderer.bbox
    animFunc,               \* ObjectRenderer.animFunc, by name
    motionFunc,             \* ObjectRenderer.motionFunc, by name
    visible,                \* ObjectRenderer.visible
    modelInstance,          \* ObjectRenderer.modelInstance
    motionState,            \* ObjectRenderer.motionState, or Null
    pitchTransformScratch,  \* the module's pitchTransformScratch
    frames                  \* the deltaTimeInFrames of the frames rendered
                            \* (in a scene run: the calls made on the object)

objectVars == <<objectSpawn, bbox, animFunc, motionFunc, visible, modelInstance,
                motionState, pitchTransformScratch, frames>>

vars == <<objectVars, fetchVars>>

\* The speed of the constructor (lines 69-75).
initialSpeed(def, motion) ==
    IF motion.speed < 0
    THEN (IF def.speedIndex >= 0 THEN speedTable[def.speedIndex + 1] ELSE 0)
    ELSE motion.speed

\* The motion state the constructor builds (lines 79-104).
initialMotionState(spawn, def, motion) ==
    [parameters |-> motion,
     speed |-> initialSpeed(def, motion),
     pathIndex |-> -1,
     adjustPitch |-> ~def.stayLevel,
     pos |-> getTranslation(spawn.modelMatrix),
     target |-> Vec3Zero,
     velocity |-> Vec3Zero,
     euler |-> Vec3Zero,
     eulerStep |-> Vec3Zero,
     eulerTarget |-> Vec3Zero,
     angle |-> 0,
     angleStep |-> 0,
     angleTarget |-> 0,
     base |-> spawn.modelMatrix,
     reference |-> Identity,
     final |-> Identity,
     axis |-> Vec3Zero,
     timer |-> -1,
     state |-> -1]

\* A sub-model as the scene hands it to the object: its rest pose, placed by
\* the spawn matrix.
newModelInstance(spawn, model) ==
    [modelMatrix |-> mat4mul(spawn.modelMatrix,
                             computeModelMatrixSRT(model.euler[1], model.euler[2], model.euler[3],
                                                   model.translation[1], model.translation[2],
                                                   model.translation[3])),
     euler |-> model.euler,
     translation |-> model.translation,
     bbox |-> model.bbox,
     visible |-> TRUE]

\* this.motionFunc(this, deltaTimeInFrames, this.motionState).
callMotionFunc(func, deltaTimeInFrames, random, motion, scratch) ==
    IF func = "followPath"
    THEN followPath(bbox.maxY, deltaTimeInFrames, motion, scratch)
    ELSE [scratch |-> scratch] @@
         (IF func = "miscSpinMotionFunc"
          THEN miscSpinMotionFunc(deltaTimeInFrames, motion)
          ELSE IF func = "miscBobMotionFunc"
          THEN miscBobMotionFunc(objectSpawn.modelMatrix.t[2], bbox.maxY,
                                 deltaTimeInFrames, random, motion)
          ELSE IF func = "miscFlipMotionFunc"
          THEN miscFlipMotionFunc(deltaTimeInFrames, motion)
          ELSE IF func = "miscSwayMotionFunc"
          THEN miscSwayMotionFunc(objectSpawn.objectId, objectSpawn.modelMatrix.t,
                                  modelInstance[1].bbox.maxY, deltaTimeInFrames, motion)
          ELSE miscWhackAMoleMotionFunc(objectSpawn.modelMatrix.t[2], modelInstance[1].bbox,
                                        deltaTimeInFrames, random, motion))

\* The composed transform of a rebuild (lines 119-125).
rebuildFinal(motion) ==
    setMatrixTranslation(
        mat4mul(motion.base,
                computeModelMatrixSRT(motion.euler[1], motion.euler[2], motion.euler[3], 0, 0, 0)),
        motion.pos)

\* placeInstance composing the matrix from final on every frame.
placeInstanceRebuilt(instance, rebuild, motion, objectPosScratch) ==
    [instance EXCEPT !.modelMatrix =
        mat4mul(motion.final,
                computeModelMatrixSRT(instance.euler[1], instance.euler[2], instance.euler[3],
                                      instance.translation[1], instance.translation[2],
                                      instance.translation[3]))]

\* The matrix of one sub-model after the motion function (lines 128-140).
placeInstance(instance, rebuild, motion, objectPosScratch) ==
    IF rebuild
    THEN [instance EXCEPT !.modelMatrix =
             mat4mul(motion.final,
                     computeModelMatrixSRT(instance.euler[1], instance.euler[2], instance.euler[3],
                                           instance.translation[1], instance.translation[2],
                                           instance.translation[3]))]
    ELSE [instance EXCEPT !.modelMatrix.t =
             [i \in 1 .. 3 |-> XAdd(instance.modelMatrix.t[i],
                                    XSub(motion.pos[i], objectPosScratch[i]))]]

\* Math.random() is drawn by the bob and the whack-a-mole motions when their
\* timer is -1; random is a fraction.
Randoms == {0, 100, 9999}

drawsRandom ==
    /\ motionFunc \in {"miscBobMotionFunc", "miscWhackAMoleMotionFunc"}
    /\ motionState # Null
    /\ motionState.timer = -1

\* viewerInput.deltaTime, in milliseconds.
DeltaTimes == {0, 33, 66, 99}

\* clamp(viewerInput.deltaTime / 33.0, 0.0, 2.0)
deltaTimeInFramesOf(deltaTime) == clamp(deltaTime \div 33, 0, 2)

\* prepareToRender skipping the object whose first sub-model is hidden.
afterPrepareToRenderShown(deltaTime, random) ==
    IF ~visible \/ ~modelInstance[1].visible
    THEN [motionState |-> motionState,
          pitchTransformScratch |-> pitchTransformScratch,
          modelInstance |-> modelInstance]
    ELSE With(deltaTimeInFramesOf(deltaTime), LAMBDA deltaTimeInFrames :
         IF motionFunc # "null" /\ motionState # Null
         THEN With(callMotionFunc(motionFunc, deltaTimeInFrames, random,
                                  motionState, pitchTransformScratch), LAMBDA moved :
              With(IF moved.rebuild
                   THEN [moved.motion EXCEPT !.final = rebuildFinal(moved.motion)]
                   ELSE moved.motion, LAMBDA motion :
                  [motionState |-> motion,
                   pitchTransformScratch |-> moved.scratch,
                   modelInstance |->
                       callAnimFunc(animFunc,
                                    [i \in DOMAIN modelInstance |->
                                        placeInstance(modelInstance[i], moved.rebuild,
                                                      motion, motionState.pos)],
                                    TRUE, deltaTimeInFrames)]))
         ELSE [motionState |-> motionState,
               pitchTransformScratch |-> pitchTransformScratch,
               modelInstance |-> callAnimFunc(animFunc, modelInstance,
                                              motionState # Null, deltaTimeInFrames)])

\* The object after prepareToRender(renderInstManager, textureHolder,
\* viewerInput, toNoclip): the motion function, the rebuild or the
\* translation of the sub-models, then the animation function.
afterPrepareToRender(deltaTime, random) ==
    IF ~visible
    THEN [motionState |-> motionState,
          pitchTransformScratch |-> pitchTransformScratch,
          modelInstance |-> modelInstance]
    ELSE With(deltaTimeInFramesOf(deltaTime), LAMBDA deltaTimeInFrames :
         IF motionFunc # "null" /\ motionState # Null
         THEN With(callMotionFunc(motionFunc, deltaTimeInFrames, random,
                                  motionState, pitchTransformScratch), LAMBDA moved :
              With(IF moved.rebuild
                   THEN [moved.motion EXCEPT !.final = rebuildFinal(moved.motion)]
                   ELSE moved.motion, LAMBDA motion :
                  [motionState |-> motion,
                   pitchTransformScratch |-> moved.scratch,
                   modelInstance |->
                       callAnimFunc(animFunc,
                                    [i \in DOMAIN modelInstance |->
                                        placeInstance(modelInstance[i], moved.rebuild,
                                                      motion, motionState.pos)],
                                    TRUE, deltaTimeInFrames)]))
         ELSE [motionState |-> motionState,
               pitchTransformScratch |-> pitchTransformScratch,
               modelInstance |-> callAnimFunc(animFunc, modelInstance,
                                              motionState # Null, deltaTimeInFrames)])

\* prepareToRender as a step of the object.
prepareToRender(deltaTime, random) ==
    \E after \in {afterPrepareToRender(deltaTime, random)} :
        /\ motionState' = after.motionState
        /\ pitchTransformScratch' = after.pitchTransformScratch
        /\ modelInstance' = after.modelInstance

\* setVisible(visible): every sub-model is told; this.visible is not
\* touched.
setVisible(value) ==
    modelInstance' = [i \in DOMAIN modelInstance |->
                         [modelInstance[i] EXCEPT !.visible = value]]

\* The display range of setActiveAreaNo with its upper end included.
visibleInAreaClosed(spawn, areaNo) ==
    /\ areaNo >= spawn.dispOnAreaNo
    /\ (areaNo <= spawn.dispOffAreaNo \/ spawn.dispOffAreaNo = -1)

\* The constant visible of setActiveAreaNo (line 157).
visibleInArea(spawn, areaNo) ==
    /\ areaNo >= spawn.dispOnAreaNo
    /\ (areaNo < spawn.dispOffAreaNo \/ spawn.dispOffAreaNo = -1)

setActiveAreaNo(areaNo) == setVisible(visibleInArea(objectSpawn, areaNo))

\* ------------------------------------------------------------------------
\* The scene: the objects the model is run on
\* ------------------------------------------------------------------------

\* Four colinear waypoints at unit spacing.
PathLine == <<0, 0, 0, 0,   0, 0, 10, 0,   0, 0, 20, 0,   0, 0, 30, 0>>

\* A path without waypoints.
PathEmpty == <<>>

PathTwo == <<0, 0, 0, 0,   0, 0, 20, 0>>

\* A level loop with right-angle turns.
PathSquare == <<0, 0, 0, 0,   20, 0, 0, 0,   20, 0, 20, 0,   0, 0, 20, 0>>

\* A level run in steps of 5 units, then a slope of length 40 (24 down, 32
\* along).
PathSlope == <<0, 0, -90, 0,   0, 0, -40, 0,   0, 0, 10, 0,   0, -240, 330, 0>>

\* A path that names one waypoint twice in a row.
PathRepeat == <<0, 0, 0, 0,   0, 0, 10, 0,   0, 0, 10, 0,   10, 0, 10, 0>>

Spawn(objectId, at) ==
    [objectId |-> objectId,
     modelMatrix |-> [r |-> Identity.r, t |-> at],
     dispOnAreaNo |-> 0,
     dispOffAreaNo |-> -1]

BBox(minY, maxY) == [minY |-> minY, maxY |-> maxY]

Definition(speedIndex, stayLevel) == [speedIndex |-> speedIndex, stayLevel |-> stayLevel]

Motion(motionID, globalMotionIndex, speed, pathPoints) ==
    [motionID |-> motionID, globalMotionIndex |-> globalMotionIndex,
     speed |-> speed, pathPoints |-> pathPoints]

Model(at, minY, maxY) ==
    [euler |-> Vec3Zero, translation |-> at, bbox |-> BBox(minY, maxY)]

\* A body and two wheels.
VehicleModels == <<Model(<<0, 0, 0>>, -5, 5), Model(<<0, 2, 5>>, -2, 2), Model(<<0, 2, -5>>, -2, 2)>>

SingleModel == <<Model(<<0, 0, 0>>, -4, 6)>>

Object(spawn, box, def, motion, models) ==
    [spawn |-> spawn, bbox |-> box, def |-> def, motion |-> motion, models |-> models]

\* An object id that no animation is selected for.
PlainId == 1

CAR02_F == 145

\* Path followers.
PathObjects ==
    { Object(Spawn(PlainId, <<0, 0, 0>>), BBox(0, 0), Definition(-1, TRUE),
             Motion(SIMPLE_PATH, 0, 10, PathLine), SingleModel),
      Object(Spawn(CAR02_F, <<0, -5, 28>>), BBox(-5, 5), Definition(1, FALSE),
             Motion(COLLISION_PATH, 0, -1, PathLine), VehicleModels),
      Object(Spawn(PlainId, <<0, 0, 4>>), BBox(-4, 6), Definition(2, TRUE),
             Motion(SIMPLE_PATH, 0, -1, PathLine), SingleModel),
      Object(Spawn(PlainId, <<0, 0, 5>>), BBox(-4, 6), Definition(-1, TRUE),
             Motion(SIMPLE_PATH, 0, 10, PathTwo), SingleModel),
      Object(Spawn(PlainId, <<3, 0, 3>>), BBox(-4, 6), Definition(-1, TRUE),
             Motion(SIMPLE_PATH, 0, 10, PathEmpty), SingleModel),
      Object(Spawn(PlainId, <<0, 0, 5>>), BBox(-4, 6), Definition(-1, TRUE),
             Motion(SIMPLE_PATH, 0, 10, PathSquare), SingleModel),
      Object(Spawn(CAR02_F, <<18, 0, 1>>), BBox(-5, 5), Definition(-1, FALSE),
             Motion(COLLISION_PATH, 0, 20, PathSquare), VehicleModels),
      Object(Spawn(CAR02_F, <<1, 0, 1>>), BBox(-5, 5), Definition(11, FALSE),
             Motion(COLLISION_PATH, 0, -1, PathSquare), VehicleModels),
      Object(Spawn(PlainId, <<0, 0, -60>>), BBox(-10, 10), Definition(-1, FALSE),
             Motion(COLLISION_PATH, 0, 50, PathSlope), SingleModel),
      Object(Spawn(PlainId, <<0, 0, 1>>), BBox(-4, 6), Definition(-1, TRUE),
             Motion(SIMPLE_PATH, 0, 10, PathRepeat), SingleModel) }

\* Objects that follow no path.
OtherObjects ==
    { Object(Spawn(CAR02_F, <<7, 0, 7>>), BBox(-5, 5), Definition(1, FALSE),
             Null, VehicleModels),
      Object(Spawn(CAR02_F, <<7, 0, 7>>), BBox(-5, 5), Definition(1, FALSE),
             Motion(5, 0, -1, PathEmpty), VehicleModels),
      Object(Spawn(PlainId, <<0, 30, 0>>), BBox(-4, 6), Definition(-1, TRUE),
             Motion(MISC, 34, -1, PathEmpty), SingleModel) }

\* new ObjectRenderer(objectSpawn, bbox, def, motion), with its sub-models.
Construct(o) ==
    /\ objectSpawn = o.spawn
    /\ bbox = o.bbox
    /\ animFunc = animFuncSelect(o.spawn.objectId)
    /\ motionFunc = IF o.motion # Null
                    THEN motionFuncSelect(o.motion.motionID, o.motion.globalMotionIndex)
                    ELSE "null"
    /\ motionState = IF o.motion # Null
                     THEN initialMotionState(o.spawn, o.def, o.motion)
                     ELSE Null
    /\ visible = TRUE
    /\ modelInstance = [i \in DOMAIN o.models |-> newModelInstance(o.spawn, o.models[i])]
    /\ pitchTransformScratch = Identity
    /\ frames = <<>>

\* The number of frames a run renders.
MaxFrames == 6

Init == \E o \in PathObjects \cup OtherObjects : Construct(o) /\ newDataFetcher

\* One frame of the viewer: prepareToRender on the object.
Frame ==
    \E deltaTime \in DeltaTimes :
        \E random \in IF drawsRandom THEN Randoms ELSE {0} :
            /\ Len(frames) < MaxFrames
            /\ prepareToRender(deltaTime, random)
            /\ frames' = Append(frames, deltaTimeInFramesOf(deltaTime))
            /\ UNCHANGED <<fetchVars, objectSpawn, bbox, animFunc, motionFunc, visible>>

Next == Frame

Spec == Init /\ [][Next]_vars

\* ------------------------------------------------------------------------
\* Runs without end
\* ------------------------------------------------------------------------

\* Whack-a-mole objects of several sizes, and bobbing objects whose
\* .15 * bbox.maxY is a whole number of length units.
MiscObjects ==
    { Object(Spawn(PlainId, <<0, 30, 0>>), BBox(-4, 6), Definition(-1, TRUE),
             Motion(MISC, 34, -1, PathEmpty), SingleModel),
      Object(Spawn(PlainId, <<5, -20, 5>>), BBox(0, 25), Definition(-1, TRUE),
             Motion(MISC, 34, -1, PathEmpty), <<Model(<<0, 0, 0>>, 0, 25)>>),
      Object(Spawn(PlainId, <<0, 0, 0>>), BBox(-3, 0), Definition(-1, TRUE),
             Motion(MISC, 34, -1, PathEmpty), <<Model(<<0, 0, 0>>, -3, 0)>>),
      Object(Spawn(PlainId, <<0, 30, 0>>), BBox(-20, 20), Definition(-1, TRUE),
             Motion(MISC, 22, -1, PathEmpty), SingleModel),
      Object(Spawn(PlainId, <<5, -20, 5>>), BBox(0, 40), Definition(-1, TRUE),
             Motion(MISC, 22, -1, PathEmpty), SingleModel),
      Object(Spawn(PlainId, <<0, 0, 0>>), BBox(-60, -20), Definition(-1, TRUE),
             Motion(MISC, 22, -1, PathEmpty), SingleModel) }

\* The phase (motion.angle) up to which a run without end is followed: more
\* than one turn.
MaxPhase == 200

InitMisc == \E o \in MiscObjects : Construct(o) /\ newDataFetcher

\* One frame of a run without end; frames keeps the latest deltaTimeInFrames
\* only.
FrameMisc ==
    \E deltaTime \in DeltaTimes :
        \E random \in IF drawsRandom THEN Randoms ELSE {0} :
            /\ motionState.angle < MaxPhase
            /\ prepareToRender(deltaTime, random)
            /\ frames' = <<deltaTimeInFramesOf(deltaTime)>>
            /\ UNCHANGED <<fetchVars, objectSpawn, bbox, animFunc, motionFunc, visible>>

NextMisc == FrameMisc

SpecMisc == InitMisc /\ [][NextMisc]_vars

\* Swaying objects of several heights, the last of them the balance doll.
SwayObjects ==
    { Object(Spawn(PlainId, <<0, 30, 0>>), BBox(-4, 6), Definition(-1, TRUE),
             Motion(MISC, 32, -1, PathEmpty), SingleModel),
      Object(Spawn(PlainId, <<5, -20, 5>>), BBox(0, 40), Definition(-1, TRUE),
             Motion(MISC, 32, -1, PathEmpty), <<Model(<<0, 0, 0>>, 0, 40)>>),
      Object(Spawn(CAR02_F, <<-30, 0, 10>>), BBox(-5, 5), Definition(-1, TRUE),
             Motion(MISC, 32, -1, PathEmpty),
             <<Model(<<0, 0, 0>>, -100, 100), Model(<<0, 2, 5>>, -2, 2),
               Model(<<0, 2, -5>>, -2, 2)>>),
      Object(Spawn(BALANCEDOLL01_C, <<0, 30, 0>>), BBox(-4, 6), Definition(-1, TRUE),
             Motion(MISC, 32, -1, PathEmpty), SingleModel) }

\* The number of frames a swaying run renders: more than one period.
MaxSwayFrames == 95

InitSway == \E o \in SwayObjects : Construct(o) /\ newDataFetcher

\* Frames of 33 ms: deltaTimeInFrames = 1 on every call.
SwayDeltaTimes == {33}

FrameSway ==
    \E deltaTime \in SwayDeltaTimes :
        /\ Len(frames) < MaxSwayFrames
        /\ prepareToRender(deltaTime, 0)
        /\ frames' = Append(frames, deltaTimeInFramesOf(deltaTime))
        /\ UNCHANGED <<fetchVars, objectSpawn, bbox, animFunc, motionFunc, visible>>

NextSway == FrameSway

SpecSway == InitSway /\ [][NextSway]_vars

\* Followers of the path that names one waypoint twice in a row: level,
\* pitching, and with speed 0.
RepeatObjects ==
    { Object(Spawn(PlainId, <<0, 0, 1>>), BBox(-4, 6), Definition(-1, TRUE),
             Motion(SIMPLE_PATH, 0, 10, PathRepeat), SingleModel),
      Object(Spawn(PlainId, <<0, 0, 1>>), BBox(-4, 6), Definition(-1, FALSE),
             Motion(COLLISION_PATH, 0, 10, PathRepeat), SingleModel),
      Object(Spawn(PlainId, <<0, 0, 1>>), BBox(-4, 6), Definition(-1, FALSE),
             Motion(COLLISION_PATH, 0, 0, PathRepeat), SingleModel) }

InitRepeat == \E o \in RepeatObjects : Construct(o) /\ newDataFetcher

SpecRepeat == InitRepeat /\ [][Next]_vars

\* A path out and back, the way back 1 unit beside the way out.
PathHairpin == <<0, 0, 0, 0,   0, 0, 20, 0,   0, 0, 40, 0,
                 10, 0, 40, 0,   10, 0, 20, 0,   10, 0, 0, 0>>

\* The paths and the places the start of a follower is chosen on.
StartPaths == {PathLine, PathTwo, PathSquare, PathSlope, PathRepeat, PathHairpin}

StartCoordinates == {-8, 0, 4, 12, 20, 33}

StartHeights == {0, 15}

\* Followers over the places and the paths.
StartObjects ==
    { Object(Spawn(PlainId, <<x, y, z>>), BBox(-4, 6), Definition(-1, TRUE),
             Motion(SIMPLE_PATH, 0, 10, path), SingleModel) :
          x \in StartCoordinates, y \in StartHeights, z \in StartCoordinates,
          path \in StartPaths }

\* The number of frames rendered after the construction of a follower.
MaxStartFrames == 2

InitStart == \E o \in StartObjects : Construct(o) /\ newDataFetcher

FrameStart ==
    \E deltaTime \in DeltaTimes :
        /\ Len(frames) < MaxStartFrames
        /\ prepareToRender(deltaTime, 0)
        /\ frames' = Append(frames, deltaTimeInFramesOf(deltaTime))
        /\ UNCHANGED <<fetchVars, objectSpawn, bbox, animFunc, motionFunc, visible>>

NextStart == FrameStart

SpecStart == InitStart /\ [][NextStart]_vars

\* ------------------------------------------------------------------------
\* A scene run: frames, area changes and visibility changes
\* ------------------------------------------------------------------------

SpawnIn(objectId, at, dispOnAreaNo, dispOffAreaNo) ==
    [Spawn(objectId, at) EXCEPT !.dispOnAreaNo = dispOnAreaNo,
                                !.dispOffAreaNo = dispOffAreaNo]

\* A body and two parts of an object without animation.
ThreeModels == <<Model(<<0, 0, 0>>, -5, 5), Model(<<3, 0, 0>>, -2, 2), Model(<<0, 4, -5>>, -2, 2)>>

\* One object of every motion kind, and objects without motion function,
\* over several display ranges.
SceneObjects ==
    { Object(SpawnIn(PlainId, <<0, 0, 5>>, 0, -1), BBox(-4, 6), Definition(-1, TRUE),
             Motion(SIMPLE_PATH, 0, 10, PathSquare), ThreeModels),
      Object(SpawnIn(CAR02_F, <<0, -5, 28>>, 1, 3), BBox(-5, 5), Definition(1, FALSE),
             Motion(COLLISION_PATH, 0, -1, PathLine), VehicleModels),
      Object(SpawnIn(PlainId, <<1, 2, 3>>, 2, -1), BBox(-4, 6), Definition(-1, TRUE),
             Motion(MISC, 21, -1, PathEmpty), ThreeModels),
      Object(SpawnIn(PlainId, <<0, 30, 0>>, 2, 2), BBox(-20, 20), Definition(-1, TRUE),
             Motion(MISC, 22, -1, PathEmpty), ThreeModels),
      Object(SpawnIn(PlainId, <<1, 2, 3>>, 3, 1), BBox(-4, 6), Definition(-1, TRUE),
             Motion(MISC, 30, -1, PathEmpty), SingleModel),
      Object(SpawnIn(PlainId, <<5, -20, 5>>, 0, 2), BBox(0, 40), Definition(-1, TRUE),
             Motion(MISC, 32, -1, PathEmpty), ThreeModels),
      Object(SpawnIn(PlainId, <<0, 30, 0>>, 1, -1), BBox(-4, 6), Definition(-1, TRUE),
             Motion(MISC, 34, -1, PathEmpty), ThreeModels),
      Object(SpawnIn(PlainId, <<0, 30, 0>>, 0, -1), BBox(-4, 6), Definition(-1, TRUE),
             Motion(MISC, 31, -1, PathEmpty), SingleModel),
      Object(SpawnIn(PlainId, <<7, 0, 7>>, 0, 1), BBox(-5, 5), Definition(1, FALSE),
             Motion(5, 21, -1, PathLine), SingleModel),
      Object(SpawnIn(CAR02_F, <<7, 0, 7>>, 1, 2), BBox(-5, 5), Definition(1, FALSE),
             Null, VehicleModels) }

\* The number of calls a scene run makes on its object.
MaxSceneCalls == 3

\* The area numbers of the scene.
AreaNos == 0 .. 3

\* A call made on the object and its argument, a number.
Call(name, arg) == [call |-> name, arg |-> arg]

\* A boolean argument as a number.
Flag(value) == IF value THEN 1 ELSE 0

InitScene == \E o \in SceneObjects : Construct(o) /\ newDataFetcher

FrameScene ==
    \E deltaTime \in DeltaTimes :
        \E random \in IF drawsRandom THEN Randoms ELSE {0} :
            /\ Len(frames) < MaxSceneCalls
            /\ prepareToRender(deltaTime, random)
            /\ frames' = Append(frames, Call("prepareToRender", deltaTimeInFramesOf(deltaTime)))
            /\ UNCHANGED <<fetchVars, objectSpawn, bbox, animFunc, motionFunc, visible>>

\* The scene enters an area.
SetActiveAreaNoScene ==
    \E areaNo \in AreaNos :
        /\ Len(frames) < MaxSceneCalls
        /\ setActiveAreaNo(areaNo)
        /\ frames' = Append(frames, Call("setActiveAreaNo", areaNo))
        /\ UNCHANGED <<fetchVars, objectSpawn, bbox, animFunc, motionFunc, visible, motionState,
                       pitchTransformScratch>>

\* A caller shows or hides the sub-models.
SetVisibleScene ==
    \E value \in BOOLEAN :
        /\ Len(frames) < MaxSceneCalls
        /\ setVisible(value)
        /\ frames' = Append(frames, Call("setVisible", Flag(value)))
        /\ UNCHANGED <<fetchVars, objectSpawn, bbox, animFunc, motionFunc, visible, motionState,
                       pitchTransformScratch>>

\* A caller assigns the public field visible.
AssignVisibleScene ==
    \E value \in BOOLEAN :
        /\ Len(frames) < MaxSceneCalls
        /\ visible' = value
        /\ frames' = Append(frames, Call("visible", Flag(value)))
        /\ UNCHANGED <<fetchVars, objectSpawn, bbox, animFunc, motionFunc, modelInstance, motionState,
                       pitchTransformScratch>>

NextScene ==
    \/ FrameScene
    \/ SetActiveAreaNoScene
    \/ SetVisibleScene
    \/ AssignVisibleScene

SpecScene == InitScene /\ [][NextScene]_vars

\* Followers of paths of at least two distinct waypoints, with speed > 0 and
\* no segment shorter than a frame's travel.
LiveObjects ==
    { Object(Spawn(PlainId, <<0, 0, 0>>), BBox(0, 0), Definition(-1, TRUE),
             Motion(SIMPLE_PATH, 0, 10, PathLine), SingleModel),
      Object(Spawn(PlainId, <<0, 0, 5>>), BBox(-4, 6), Definition(-1, TRUE),
             Motion(SIMPLE_PATH, 0, 10, PathTwo), SingleModel),
      Object(Spawn(PlainId, <<0, 0, 5>>), BBox(-4, 6), Definition(-1, TRUE),
             Motion(SIMPLE_PATH, 0, 10, PathSquare), SingleModel),
      Object(Spawn(PlainId, <<12, 0, 21>>), BBox(-4, 6), Definition(0, TRUE),
             Motion(SIMPLE_PATH, 0, -1, PathSquare), SingleModel),
      Object(Spawn(PlainId, <<2, 0, 12>>), BBox(-4, 6), Definition(0, TRUE),
             Motion(SIMPLE_PATH, 0, -1, PathLine), SingleModel),
      Object(Spawn(PlainId, <<0, 0, -60>>), BBox(-10, 10), Definition(-1, FALSE),
             Motion(COLLISION_PATH, 0, 50, PathSlope), SingleModel),
      Object(Spawn(PlainId, <<18, 0, 1>>), BBox(-5, 5), Definition(-1, FALSE),
             Motion(COLLISION_PATH, 0, 20, PathSquare), SingleModel) }

InitLive == \E o \in LiveObjects : Construct(o) /\ newDataFetcher

\* The frames of a running viewer: deltaTime > 0.
LiveDeltaTimes == {33, 66}

FrameLive ==
    \E deltaTime \in LiveDeltaTimes :
        /\ prepareToRender(deltaTime, 0)
        /\ frames' = <<deltaTimeInFramesOf(deltaTime)>>
        /\ UNCHANGED <<fetchVars, objectSpawn, bbox, animFunc, motionFunc, visible>>

NextLive == FrameLive

\* The viewer renders frame after frame (requestAnimationFrame).
SpecLive == InitLive /\ [][NextLive]_vars /\ WF_vars(FrameLive)

\* ------------------------------------------------------------------------
\* The claims
\* ------------------------------------------------------------------------

\* The object follows a path and followPath has been called at least once.
following == motionFunc = "followPath" /\ motionState # Null /\ motionState.pathIndex >= 0

\* The path of the object.
pathPoints == motionState.parameters.pathPoints

\* C1: for a path follower on a path of at least one waypoint, after the
\* first followPath call and after every later one, pathIndex is at least 0
\* and less than the number of waypoints.
C1_PathIndexInRange ==
    (following /\ waypointCount(pathPoints) >= 1)
        => motionState.pathIndex \in 0 .. waypointCount(pathPoints) - 1

\* C1: a follower whose first call chose the last waypoint as its start:
\* pathIndex is the number of waypoints and the target is read past the end.
C1_PastTheEnd ==
    /\ following
    /\ waypointCount(pathPoints) >= 1
    /\ motionState.pathIndex = waypointCount(pathPoints)
    /\ HasNaN(motionState.target)

\* The deltaTimeInFrames of the latest prepareToRender call.
lastDelta == frames[Len(frames)]

\* Whether a followPath call with deltaTimeInFrames on the present state
\* calls targetNextPoint (line 409, after the initialization of a first call).
advancesWith(deltaTimeInFrames) ==
    reachesTarget(IF motionState.pathIndex < 0
                  THEN followPathStart(motionState, bbox.maxY)
                  ELSE motionState,
                  deltaTimeInFrames)

\* pos, euler and pathIndex are the same after the step as before it.
keepsPlace ==
    /\ motionState'.pos = motionState.pos
    /\ motionState'.euler = motionState.euler
    /\ motionState'.pathIndex = motionState.pathIndex

\* pos is exactly target (no coordinate of either is NaN).
atTarget ==
    /\ ~HasNaN(motionState.pos)
    /\ ~HasNaN(motionState.target)
    /\ motionState.pos = motionState.target

\* C2: in every reachable motion state of a path follower, the
\* uninitialized one included, a followPath call with deltaTimeInFrames = 0
\* leaves pos, euler and pathIndex unchanged.
C2_ZeroDeltaKeepsPlace ==
    [][(motionFunc = "followPath" /\ lastDelta' = 0) => keepsPlace]_vars

\* C2 as amended: once followPath has initialized the motion state, a call
\* with deltaTimeInFrames = 0 made while pos is not exactly at target leaves
\* pos, euler and pathIndex unchanged.
C2_ZeroDeltaKeepsPlaceUnderway ==
    [][(following /\ ~atTarget /\ lastDelta' = 0) => keepsPlace]_vars

\* C2: a follower under way between two waypoints, turning, whose latest
\* two calls had deltaTimeInFrames = 0: the second of them started from
\* this very place.
C2_PausedUnderway ==
    /\ following
    /\ Len(frames) >= 3
    /\ lastDelta = 0
    /\ frames[Len(frames) - 1] = 0
    /\ ~HasNaN(motionState.pos)
    /\ ~atTarget
    /\ motionState.eulerStep[2] # 0

\* The signed angular distance from euler.y to eulerTarget.y.
yawLeft(motion) == angleDist(motion.euler[2], motion.eulerTarget[2])

\* The yaw snapped: eulerStep.y is 0 and euler.y is eulerTarget.y.
yawSnapped(motion) == motion.eulerStep[2] = 0 /\ motion.euler[2] = motion.eulerTarget[2]

pitching == following /\ motionState.adjustPitch

\* The angle left to angleTarget.
pitchLeft(motion) == XSub(motion.angleTarget, motion.angle)

\* C4: the pitch blend is monotonic and terminates. In every state where
\* angle equals angleTarget, angleStep is 0; and over every followPath call
\* that does not advance to the next waypoint, angle moves toward angleTarget
\* without passing it, and base stays as it is when angle already equals
\* angleTarget.
C4_PitchBlendTerminates ==
    /\ []((pitching /\ motionState.angle = motionState.angleTarget)
             => motionState.angleStep = 0)
    /\ [][(pitching /\ ~advancesWith(lastDelta'))
             => /\ Abs(pitchLeft(motionState')) <= Abs(pitchLeft(motionState))
                /\ Sgn(pitchLeft(motionState')) \in {0, Sgn(pitchLeft(motionState))}
                /\ (motionState.angle = motionState.angleTarget
                      => motionState'.base = motionState.base)]_vars

\* C4: angle has landed exactly on a non-zero angleTarget by increments, and
\* angleStep is still not 0.
C4_LandedStillStepping ==
    /\ pitching
    /\ motionState.angle = motionState.angleTarget
    /\ motionState.angleTarget # 0
    /\ motionState.angleStep # 0
    /\ IsFinite(motionState.angleStep)

\* The scenario of C5: four colinear waypoints at unit spacing, the object
\* exactly at waypoint 0, speed 1, bounding-box top 0, and so far only calls
\* with deltaTimeInFrames = 1.
onTheLine ==
    /\ motionFunc = "followPath"
    /\ pathPoints = PathLine
    /\ getTranslation(objectSpawn.modelMatrix) = pathPoint(PathLine, 0)
    /\ motionState.speed = 1 * UNIT
    /\ bbox.maxY = 0
    /\ \A i \in 1 .. Len(frames) : frames[i] = 1

\* C5: in the scenario, after exactly 4 followPath calls pathIndex is 0 again
\* and the object is 3 units (the length of the path) from where it started.
C5_FourCallsCycle ==
    (onTheLine /\ Len(frames) = 4)
        => /\ motionState.pathIndex = 0
           /\ vec3sqrDist(motionState.pos, pathPoint(PathLine, 0)) = (3 * UNIT) * (3 * UNIT)

\* C5 as amended: in the scenario the object cycles within 4 calls, but
\* pathIndex is 0 after the second and the third call; after exactly 4 calls
\* it is 1 and the object stands on waypoint 1, 1 unit from where it started.
C5_FourCallsCycleToOne ==
    /\ (onTheLine /\ Len(frames) \in {2, 3}) => motionState.pathIndex = 0
    /\ (onTheLine /\ Len(frames) = 4)
          => /\ motionState.pathIndex = 1
             /\ motionState.pos = pathPoint(PathLine, 1)
             /\ vec3sqrDist(motionState.pos, pathPoint(PathLine, 0)) = (1 * UNIT) * (1 * UNIT)

\* C5: the scenario after its fourth call.
C5_AfterFourCalls == onTheLine /\ Len(frames) = 4

\* C7: on an empty path the first followPath call fails instead of returning:
\* no call ever completes (pathIndex stays -1), and pos, target and velocity
\* never hold NaN.
C7_EmptyPathFailsFast ==
    (motionFunc = "followPath" /\ waypointCount(pathPoints) = 0)
        => /\ motionState.pathIndex = -1
           /\ ~HasNaN(motionState.pos)
           /\ ~HasNaN(motionState.target)
           /\ ~HasNaN(motionState.velocity)

\* C7: followPath has returned on an empty path, and pos, target and
\* velocity hold NaN.
C7_ReturnedWithNaN ==
    /\ following
    /\ waypointCount(pathPoints) = 0
    /\ HasNaN(motionState.pos)
    /\ HasNaN(motionState.target)
    /\ HasNaN(motionState.velocity)

\* The stored rotation of the wheels (sub-models 1 and 2) is the same after
\* the step as before it.
wheelsKept == \A i \in {2, 3} : modelInstance'[i].euler = modelInstance[i].euler

\* The object's motion position differs after the step from before it.
posChanged == motionState # Null /\ motionState'.pos # motionState.pos

\* C8: in every prepareToRender call of an object with vehicleAnimFunc, the
\* stored rotation of sub-models 1 and 2 changes only if the object's motion
\* position changed in that call.
C8_WheelsSpinOnlyWhenMoving ==
    [][(animFunc = "vehicleAnimFunc" /\ ~wheelsKept) => posChanged]_vars

\* C8: a vehicle whose motion kind selects no motion function, after a call
\* with deltaTimeInFrames > 0: its wheels have turned and it stands where it
\* was spawned.
C8_SpunStandingStill ==
    /\ animFunc = "vehicleAnimFunc"
    /\ motionFunc = "null"
    /\ motionState # Null
    /\ motionState.pos = getTranslation(objectSpawn.modelMatrix)
    /\ modelInstance[2].euler # Vec3Zero
    /\ modelInstance[3].euler # Vec3Zero

\* C9: for an object with vehicleAnimFunc and no motion state, every
\* prepareToRender call leaves the matrices and the stored Euler angles of
\* sub-models 1 and 2 unchanged.
C9_NoMotionStateNoSpin ==
    [][(animFunc = "vehicleAnimFunc" /\ motionState = Null)
          => \A i \in {2, 3} : modelInstance'[i] = modelInstance[i]]_vars

\* C9: a vehicle without motion state after two calls with
\* deltaTimeInFrames > 0, its wheels as they were built.
C9_ParkedAfterFrames ==
    /\ animFunc = "vehicleAnimFunc"
    /\ motionState = Null
    /\ Len(frames) >= 2
    /\ \A i \in 1 .. Len(frames) : frames[i] > 0
    /\ \A i \in {2, 3} : modelInstance[i].euler = Vec3Zero

\* No followPath call with deltaTimeInFrames > 0 changes the motion state any
\* more.
terminal ==
    \A deltaTime \in LiveDeltaTimes :
        afterPrepareToRender(deltaTime, 0).motionState = motionState

\* C6: the path follower has no terminal state. For a follower of a path of
\* at least two distinct waypoints, with speed > 0 and deltaTimeInFrames > 0
\* on every call, pathIndex never stays at one value forever: in every
\* reachable state some call still changes the motion state.
C6_NoTerminalState == motionFunc = "followPath" => ~terminal

\* C6: a follower stuck past the end of its path, its position NaN.
C6_Stuck ==
    /\ following
    /\ motionState.pathIndex = waypointCount(pathPoints)
    /\ HasNaN(motionState.pos)
    /\ terminal

\* The depth miscWhackAMoleMotionFunc buries the object to.
buriedDepth ==
    modelInstance[1].bbox.maxY + (modelInstance[1].bbox.maxY - modelInstance[1].bbox.minY)

\* pos.y less the spawn height.
offsetY == motionState.pos[2] - objectSpawn.modelMatrix.t[2]

\* C10: after any sequence of miscWhackAMoleMotionFunc calls, pos.y less the
\* spawn height is at least 0 and at most buriedDepth, the depth being
\* non-negative.
C10_WhackAMoleInBounds ==
    (motionFunc = "miscWhackAMoleMotionFunc" /\ buriedDepth >= 0)
        => (0 <= offsetY /\ offsetY <= buriedDepth)

\* C10: the frame in which the phase passed pi and was reset to 0, the
\* object buried to its whole depth.
C10_BuriedAtReset ==
    /\ motionFunc = "miscWhackAMoleMotionFunc"
    /\ motionState.timer = -1
    /\ motionState.angle = 0
    /\ motionState.state = 0
    /\ buriedDepth > 0
    /\ offsetY = buriedDepth

\* The object bobs.
bobbing == motionFunc = "miscBobMotionFunc"

\* C11: after any sequence of miscBobMotionFunc calls pos.y differs from the
\* spawn height by at most .15 * bbox.maxY in absolute value, and as long as
\* the random delay has not elapsed (no call has advanced the phase) pos.y
\* is the spawn height.
C11_BobInBounds ==
    bobbing => /\ 100 * Abs(offsetY) <= 15 * Abs(bbox.maxY)
               /\ (motionState.angle = 0 => offsetY = 0)

\* C11: a bobbing object whose delay has elapsed, at the top of its swing.
C11_BobAtTheTop ==
    /\ bobbing
    /\ bbox.maxY > 0
    /\ motionState.angle > 0
    /\ 100 * offsetY = 15 * bbox.maxY

\* The object sways and is not the balance doll.
swaying ==
    motionFunc = "miscSwayMotionFunc" /\ objectSpawn.objectId # BALANCEDOLL01_C

moving == motionFunc # "null" /\ motionState # Null

\* The motion kinds whose function asks for a rebuild.
rebuildingKinds ==
    {"followPath", "miscSpinMotionFunc", "miscFlipMotionFunc", "miscSwayMotionFunc"}

\* C13: the rebuild flag depends on the motion kind only: path following
\* (motion ids 0x02 and 0x1D), spin, flip and sway return true on every
\* call, whatever the frame time and the random draw, bob and whack-a-mole
\* return false; every other motion id, and the misc id with any other
\* secondary index, selects no motion function.
C13_RebuildByKind ==
    /\ frames = <<>> =>
           \A motionID \in 0 .. 40 : \A globalMoveIndex \in 0 .. 40 :
               /\ motionFuncSelect(motionID, globalMoveIndex) = "followPath"
                      <=> motionID \in {2, 29}
               /\ motionFuncSelect(motionID, globalMoveIndex) = "null"
                      <=> ~ \/ motionID \in {2, 29}
                            \/ motionID = 22 /\ globalMoveIndex \in {21, 22, 30, 32, 34}
    /\ moving =>
           \A deltaTimeInFrames \in 0 .. 2 : \A random \in Randoms :
               callMotionFunc(motionFunc, deltaTimeInFrames, random, motionState,
                              pitchTransformScratch).rebuild
                   = (motionFunc \in rebuildingKinds)

\* C13: whack-a-mole on a later call, out of its first delay, returning
\* false.
C13_WhackAMoleLater ==
    /\ motionFunc = "miscWhackAMoleMotionFunc"
    /\ Len(frames) = 3
    /\ motionState.state >= 0
    /\ ~callMotionFunc(motionFunc, 1, 0, motionState, pitchTransformScratch).rebuild

\* The last call made on the object in a scene run.
lastCall == frames[Len(frames)]

\* Every sub-model has the visibility value.
allVisible(instances, value) == \A i \in DOMAIN instances : instances[i].visible = value

\* C14: setActiveAreaNo(areaNo) makes every sub-model visible exactly when
\* areaNo lies in [dispOnAreaNo, dispOffAreaNo), a dispOffAreaNo of -1
\* standing for no upper end; otherwise it makes every sub-model invisible.
C14_SetActiveAreaNo ==
    [][\A areaNo \in AreaNos :
           frames' = Append(frames, Call("setActiveAreaNo", areaNo))
               => allVisible(modelInstance',
                             IF objectSpawn.dispOffAreaNo = -1
                             THEN objectSpawn.dispOnAreaNo <= areaNo
                             ELSE /\ objectSpawn.dispOnAreaNo <= areaNo
                                  /\ areaNo < objectSpawn.dispOffAreaNo)]_vars

\* C14: an object of several sub-models hidden by setActiveAreaNo at the
\* upper end of its display range, after having been shown inside it.
C14_HiddenAtUpperEnd ==
    /\ Len(frames) >= 2
    /\ Len(modelInstance) > 1
    /\ lastCall = Call("setActiveAreaNo", objectSpawn.dispOffAreaNo)
    /\ frames[Len(frames) - 1].call = "setActiveAreaNo"
    /\ objectSpawn.dispOnAreaNo <= frames[Len(frames) - 1].arg
    /\ frames[Len(frames) - 1].arg < objectSpawn.dispOffAreaNo
    /\ allVisible(modelInstance, FALSE)

\* The motion state a frame leaves when the motion function is called with
\* the frame time and the random draw: the state the function returns, with
\* final rebuilt when it asks for it.
motionAfter(deltaTimeInFrames, random) ==
    With(callMotionFunc(motionFunc, deltaTimeInFrames, random, motionState,
                        pitchTransformScratch), LAMBDA moved :
         IF moved.rebuild
         THEN [moved.motion EXCEPT !.final = rebuildFinal(moved.motion)]
         ELSE moved.motion)

\* C15: the motion update of a frame runs even when the object is
\* invisible: whether its sub-models were hidden through setActiveAreaNo or
\* setVisible(false) or its visible flag is false, every prepareToRender
\* call on an object with a motion function leaves the motion state the
\* motion function returns.
C15_UpdateRunsWhenInvisible ==
    [][\A deltaTimeInFrames \in 0 .. 2 :
           (moving /\ frames' = Append(frames, Call("prepareToRender", deltaTimeInFrames)))
               => \E random \in Randoms \cup {0} :
                      motionState' = motionAfter(deltaTimeInFrames, random)]_vars

\* C15 as amended: while the visible flag is true, every prepareToRender
\* call on an object with a motion function leaves the motion state the
\* motion function returns, whether or not the sub-models were hidden
\* through setActiveAreaNo or setVisible(false); while the visible flag is
\* false, prepareToRender leaves the motion state as it is.
C15_UpdateRunsWhenHidden ==
    [][\A deltaTimeInFrames \in 0 .. 2 :
           (moving /\ frames' = Append(frames, Call("prepareToRender", deltaTimeInFrames)))
               => IF visible
                  THEN \E random \in Randoms \cup {0} :
                           motionState' = motionAfter(deltaTimeInFrames, random)
                  ELSE motionState' = motionState]_vars

\* C15: a spinning object hidden by setActiveAreaNo and turned by a later
\* frame.
C15_SpunWhileHidden ==
    /\ motionFunc = "miscSpinMotionFunc"
    /\ Len(frames) = 2
    /\ frames[1].call = "setActiveAreaNo"
    /\ allVisible(modelInstance, FALSE)
    /\ visible
    /\ lastCall = Call("prepareToRender", 1)
    /\ motionState.euler[2] > 0

\* The transform of a sub-model at rest: its local rest pose.
restPose(instance) ==
    computeModelMatrixSRT(instance.euler[1], instance.euler[2], instance.euler[3],
                          instance.translation[1], instance.translation[2],
                          instance.translation[3])

\* C20: on a frame of an object without animation whose motion function
\* returns false, every sub-model matrix keeps its rotation part and has
\* new pos - old pos added to its translation, and final and base of the
\* motion state stay as they were; on a frame whose motion function returns
\* true, final is base times the rotation of euler with pos as translation,
\* and every sub-model matrix is final times the rest pose of the sub-model.
C20_TranslateOrRebuild ==
    [][\A deltaTimeInFrames \in 0 .. 2 :
           (/\ moving
            /\ visible
            /\ animFunc = "null"
            /\ frames' = Append(frames, Call("prepareToRender", deltaTimeInFrames)))
               => IF callMotionFunc(motionFunc, deltaTimeInFrames, 0, motionState,
                                    pitchTransformScratch).rebuild
                  THEN /\ motionState'.final =
                              setMatrixTranslation(
                                  mat4mul(motionState'.base,
                                          computeModelMatrixSRT(motionState'.euler[1],
                                                                motionState'.euler[2],
                                                                motionState'.euler[3], 0, 0, 0)),
                                  motionState'.pos)
                       /\ \A i \in DOMAIN modelInstance :
                              modelInstance'[i].modelMatrix =
                                  mat4mul(motionState'.final, restPose(modelInstance[i]))
                  ELSE /\ motionState'.final = motionState.final
                       /\ motionState'.base = motionState.base
                       /\ \A i \in DOMAIN modelInstance :
                              /\ modelInstance'[i].modelMatrix.r = modelInstance[i].modelMatrix.r
                              /\ \A k \in 1 .. 3 :
                                     modelInstance'[i].modelMatrix.t[k] =
                                         modelInstance[i].modelMatrix.t[k]
                                             + motionState'.pos[k] - motionState.pos[k]]_vars

\* C20: an object of several sub-models after a frame that moved it without
\* a rebuild.
C20_MovedWithoutRebuild ==
    /\ Len(frames) >= 1
    /\ lastCall.call = "prepareToRender"
    /\ visible
    /\ motionFunc \in {"miscBobMotionFunc", "miscWhackAMoleMotionFunc"}
    /\ Len(modelInstance) > 1
    /\ motionState.pos # getTranslation(objectSpawn.modelMatrix)
    /\ motionState.final = Identity

\* The waypoint findPathStartIndex chooses for the object as constructed.
startIndex == findPathStartIndex(getTranslation(objectSpawn.modelMatrix), pathPoints)

\* The state is the one the first followPath call left, and that call did not
\* advance to a further waypoint.
afterFirstCallOnly ==
    /\ following
    /\ Len(frames) = 1
    /\ waypointCount(pathPoints) >= 2
    /\ motionState.pathIndex = startIndex + 1

\* The yaw that points from a position at a target.
yawAt(pos, target) == XAdd(PI, Atan2(XSub(target[1], pos[1]), XSub(target[3], pos[3])))

\* C16: after a first followPath call that did not reach the target in the
\* same frame, the target is the waypoint after the chosen start waypoint
\* (lowered by bbox.maxY), euler.y is pi + atan2 of the horizontal direction
\* from pos to the target, and velocity is the direction from the start
\* waypoint to the target with length speed.
C16_AfterFirstCall ==
    afterFirstCallOnly
        => /\ startIndex + 1 < waypointCount(pathPoints)
           /\ motionState.target = SubY(pathPoint(pathPoints, startIndex + 1), bbox.maxY)
           /\ motionState.euler[2] = yawAt(motionState.pos, motionState.target)
           /\ motionState.velocity =
                  normToLength(vec3sub(motionState.target,
                                       SubY(pathPoint(pathPoints, startIndex), bbox.maxY)),
                               motionState.speed)

\* C16: a first call that found its target, the waypoint after the start
\* waypoint, and its velocity, and left euler.y at 0, a quarter turn or more
\* off the yaw that points at the target.
C16_YawLost ==
    /\ afterFirstCallOnly
    /\ startIndex + 1 < waypointCount(pathPoints)
    /\ motionState.target = SubY(pathPoint(pathPoints, startIndex + 1), bbox.maxY)
    /\ motionState.velocity # Vec3Zero
    /\ ~HasNaN(motionState.velocity)
    /\ motionState.euler[2] = 0
    /\ Abs(angleDist(yawAt(motionState.pos, motionState.target), 0)) >= HALF_PI

\* A followPath call with deltaTimeInFrames on the present state calls
\* targetNextPoint; this is the state the call is made on.
beforeAdvance(deltaTimeInFrames) ==
    With(IF motionState.pathIndex < 0
         THEN followPathStart(motionState, bbox.maxY)
         ELSE motionState, LAMBDA started :
         IF motionState.adjustPitch
         THEN adjustBasePitch(started, pitchTransformScratch, deltaTimeInFrames).motion
         ELSE started)

\* C18: no waypoint advance divides by zero: for every followPath call that
\* calls targetNextPoint, speed 0 and a next waypoint on top of the present
\* one included, the distance to the new target that divides the yaw step
\* and the pitch step is not 0, and eulerStep.y and angleStep are finite
\* after the call.
C18_StepsFinite ==
    (motionFunc = "followPath" /\ motionState # Null) =>
        \A deltaTimeInFrames \in 0 .. 2 :
            advancesWith(deltaTimeInFrames) =>
                With(targetNextPoint(beforeAdvance(deltaTimeInFrames), bbox.maxY),
                     LAMBDA next :
                         /\ next.target # next.pos
                         /\ IsFinite(next.eulerStep[2])
                         /\ IsFinite(next.angleStep))

\* C18: a pitching follower that advanced from a waypoint to the same
\* waypoint named again: the target is the waypoint before it in the path,
\* and the pitch step, a quotient by 0, is not a finite number.
C18_StepNotFinite ==
    /\ pitching
    /\ motionState.pathIndex >= 1
    /\ ~HasNaN(motionState.target)
    /\ motionState.target =
           SubY(pathPoint(pathPoints, motionState.pathIndex - 1), bbox.maxY)
    /\ ~IsFinite(motionState.angleStep)

\* The squared distance from the place of construction to waypoint i.
spawnDist(i) ==
    vec3sqrDist(getTranslation(objectSpawn.modelMatrix),
                pathPoint(motionState.parameters.pathPoints, i))

\* The waypoint indices of the path of the object.
waypoints == 0 .. waypointCount(motionState.parameters.pathPoints) - 1

\* nearest and second are waypoints at the two smallest distances from the
\* place of construction.
twoNearest(nearest, second) ==
    /\ nearest # second
    /\ \A j \in waypoints : spawnDist(nearest) <= spawnDist(j)
    /\ \A j \in waypoints \ {nearest} : spawnDist(second) <= spawnDist(j)

\* C17: for every position and every path of at least two waypoints,
\* findPathStartIndex returns 0 if the nearest waypoint is 0 and the second
\* nearest is not 1, or the second nearest is 0 and the nearest is not 1,
\* and otherwise the larger of the two indices; nearest and second nearest
\* are waypoints at the two smallest distances over the whole path.
C17_StartIndexRule ==
    (motionFunc = "followPath" /\ motionState # Null /\ Cardinality(waypoints) >= 2)
        => \E nearest \in waypoints : \E second \in waypoints :
               /\ twoNearest(nearest, second)
               /\ findPathStartIndex(getTranslation(objectSpawn.modelMatrix),
                                     motionState.parameters.pathPoints)
                      = IF \/ nearest = 0 /\ second # 1
                           \/ second = 0 /\ nearest # 1
                        THEN 0
                        ELSE Max(nearest, second)

\* C17: a follower started between the way out and the way back of the
\* hairpin: waypoint 1 is the one nearest, waypoint 4 the only second
\* nearest, and the first call started from waypoint 4.
C17_StartedOnTheWayBack ==
    /\ following
    /\ Len(frames) = 1
    /\ Cardinality(waypoints) = 6
    /\ \A j \in waypoints \ {1} : spawnDist(1) < spawnDist(j)
    /\ \A j \in waypoints \ {1, 4} : spawnDist(4) < spawnDist(j)
    /\ startIndex = 4
    /\ motionState.pathIndex = 5

\* The object is a whack-a-mole after its first update.
whacking == motionFunc = "miscWhackAMoleMotionFunc" /\ motionState.state # -1

\* The present cycle of the whack-a-mole has moved the object: the phase has
\* left the pi/2 that the start of the cycle sets.
inMovement == motionState.timer # -1 /\ motionState.angle > HALF_PI

\* C19: whack-a-mole alternates between its two states. After the first
\* update state is 0 or 1; state changes in exactly the updates that start
\* with timer = -1, from 0 to 1 and from 1 to 0; once a cycle has moved the
\* object, no later update of the cycle counts the timer down instead of
\* moving (the delay comes before the movement); and timer becomes -1 in
\* a movement update only, never by counting down.
C19_Alternates ==
    [][motionFunc = "miscWhackAMoleMotionFunc"
           => /\ motionState'.state \in {0, 1}
              /\ (motionState'.state # motionState.state) <=> (motionState.timer = -1)
              /\ (inMovement => motionState.timer < frames'[1])
              /\ (motionState'.timer = -1 /\ motionState.timer # -1)
                     => /\ motionState.timer < frames'[1]
                        /\ motionState'.angle = 0]_vars

\* C19: a whack-a-mole that began to move in a frame of two frame times
\* with one frame left on its timer: an update of one frame time now counts
\* the timer down and leaves the object where it is.
C19_DelayAfterMovement ==
    /\ whacking
    /\ inMovement
    /\ motionState.timer = 1
    /\ With(callMotionFunc(motionFunc, 1, 0, motionState, pitchTransformScratch).motion,
            LAMBDA counted :
                /\ counted.timer = 0
                /\ counted.angle = motionState.angle
                /\ counted.pos = motionState.pos)

\* ------------------------------------------------------------------------
\* The data fetcher at work
\* ------------------------------------------------------------------------

\* No scene object is built while the data of the scene is fetched.
noObject ==
    /\ objectSpawn = Null
    /\ bbox = Null
    /\ animFunc = "null"
    /\ motionFunc = "null"
    /\ visible = TRUE
    /\ modelInstance = <<>>
    /\ motionState = Null
    /\ pitchTransformScratch = Identity
    /\ frames = <<>>

\* The number of fetchData calls of a run.
MaxCalls == 4

\* The paths asked for: a file, and a path that getDataURLForPath refuses.
Paths == {<<"a.bin">>, <<"data", "a.bin">>}

\* e.loaded / e.total of a progress event in halves, -1 for a length that is
\* not computable.
Loaded == {-1, 0, 1, WHOLE}

InitFetch == newDataFetcher /\ noObject

FetchData ==
    \E path \in Paths :
        /\ Len(fetched) < MaxCalls
        /\ fetchData(path)
        /\ UNCHANGED objectVars

Load == \E id \in 1 .. Len(dataFetcherRequest) : onload(id) /\ UNCHANGED objectVars

Error == \E id \in 1 .. Len(dataFetcherRequest) : onerror(id) /\ UNCHANGED objectVars

Progress ==
    \E id \in 1 .. Len(dataFetcherRequest) : \E loaded \in Loaded :
        onprogress(id, loaded) /\ UNCHANGED objectVars

Abort == onabort /\ UNCHANGED objectVars

NextFetch ==
    \/ FetchData
    \/ Load
    \/ Error
    \/ Progress
    \/ Abort

SpecFetch == InitFetch /\ [][NextFetch]_vars

\* ------------------------------------------------------------------------
\* The claims on the data fetcher
\* ------------------------------------------------------------------------

\* The requests whose XMLHttpRequest is under way: started and neither
\* loaded, failed nor aborted.
underWay == {id \in 1 .. Len(dataFetcherRequest) : dataFetcherRequest[id].readyState = "sent"}

\* Request id has been started.
started(id) == dataFetcherRequest[id].starts > 0

\* C21: DataFetcher never runs more than maxParallelRequests (2) requests at
\* once: under every interleaving of fetchData calls, load, progress and
\* error events and the abort signal, at most 2 requests are started and
\* not finished, every request is started at most once, the started
\* requests of the pending list are its oldest entries, and requests are
\* started in the order of their fetchData calls.
C21_AtMostTwoAtOnce ==
    /\ Cardinality(underWay) <= 2
    /\ \A id \in 1 .. Len(dataFetcherRequest) : dataFetcherRequest[id].starts <= 1
    /\ \A i \in 1 .. Len(requests) : \A j \in 1 .. Len(requests) :
           i < j => /\ requests[i] < requests[j]
                    /\ started(requests[j]) => started(requests[i])
    /\ \A a \in 1 .. Len(dataFetcherRequest) : \A b \in 1 .. Len(dataFetcherRequest) :
           (a < b /\ started(b)) => started(a)

\* C21: two requests under way, a third waiting behind them, after a first
\* one was loaded and gave its place to the next.
C21_TwoUnderWayOneWaiting ==
    /\ Cardinality(underWay) = 2
    /\ doneRequestCount = 1
    /\ Len(requests) = 3
    /\ ~started(requests[3])
    /\ ~aborted

\* The pending requests that were not started.
waiting == {i \in 1 .. Len(requests) : ~started(requests[i])}

\* C22: every request handed to fetchData is started in the end, as long as
\* there is no abort and every started request ends in a load or an error
\* event; requests that ended in an error do not keep the ones queued
\* behind them from starting. As a property of states: while a request waits
\* and the fetcher is not aborted, a request is under way, so that an event
\* is still to come that lets the waiting request start; a state without one
\* keeps the request waiting for ever.
C22_WaitingWillStart ==
    (~aborted /\ waiting # {}) => underWay # {}

\* C22: two requests ended in an error and stay at the head of the pending
\* list, nothing is under way, and a third request waits behind them.
C22_StuckBehindErrors ==
    /\ ~aborted
    /\ Len(requests) >= 3
    /\ dataFetcherRequest[requests[1]].readyState = "failed"
    /\ dataFetcherRequest[requests[2]].readyState = "failed"
    /\ ~started(requests[3])
    /\ underWay = {}

\* C23: after the abort signal has fired the pending list is empty and stays
\* empty, no callback of a request runs any more (doneRequestCount and the
\* progress handed to the progress meter do not change, no promise is
\* resolved, no request is started or made), and every later fetchData call
\* throws.
C23_NothingAfterAbort ==
    [][/\ aborted' => requests' = <<>>
       /\ aborted =>
              /\ aborted'
              /\ doneRequestCount' = doneRequestCount
              /\ progressMeter' = progressMeter
              /\ Len(dataFetcherRequest') = Len(dataFetcherRequest)
              /\ \A id \in 1 .. Len(dataFetcherRequest) :
                     /\ dataFetcherRequest'[id].starts = dataFetcherRequest[id].starts
                     /\ dataFetcherRequest'[id].promise = dataFetcherRequest[id].promise
                     /\ dataFetcherRequest'[id].progress = dataFetcherRequest[id].progress
              /\ fetched' # fetched => fetched' = Append(fetched, "throw")]_vars

\* C23: an aborted fetcher that had loaded one request and had one under
\* way when the signal fired, and has refused a fetchData call since.
C23_RefusedAfterAbort ==
    /\ aborted
    /\ requests = <<>>
    /\ doneRequestCount = 1
    /\ \E id \in 1 .. Len(dataFetcherRequest) : dataFetcherRequest[id].readyState = "aborted"
    /\ Len(fetched) > 0
    /\ fetched[Len(fetched)] = "throw"

=============================================================================
